---- MODULE Spec2Model ----
(***************************************************************************)
(* A model of the FlexiFit backend (src/backend/main.py): the /chat        *)
(* negotiation pipeline (draft -> judge -> conditional retry -> re-judge), *)
(* the empathy judge's output coercion, and the request validation of the  *)
(* /progress, /progress/motivation and /persona endpoints.                 *)
(*                                                                         *)
(* Texts are sequences of one-character strings.  An Optional value is a   *)
(* sequence of length 0 (None) or 1 (the value).                           *)
(***************************************************************************)
EXTENDS Integers, Sequences, FiniteSets, TLC

VARIABLES
    env_retry_flag,         \* os.getenv("RETRY_ON_LOW_EMPATHY")
    env_retry_threshold,    \* os.getenv("RETRY_EMPATHY_THRESHOLD")
    op,                     \* endpoint handling the current request
    pc,                     \* position of the handler
    user_message,           \* request.user_message
    current_goal,           \* request.current_goal / request.goal
    language,               \* request.language (Optional text)
    chat_history,           \* request.chat_history
    raw_draft,              \* text returned by call_gemini_negotiator
    ai_reply_retry,         \* text returned by call_gemini_negotiator_retry
    ai_reply,               \* chat_endpoint local
    deal_label,             \* chat_endpoint local (Optional text)
    deal_made,              \* chat_endpoint local
    empathy_score,          \* chat_endpoint local (Optional 1..5)
    empathy_rationale,      \* chat_endpoint local (Optional text)
    retry_used,             \* chat_endpoint local
    initial_empathy_score,  \* chat_endpoint local (Optional 1..5)
    calls,                  \* gateway calls started for this request
    results,                \* what each finished gateway call returned
    response,               \* the HTTP response of the request
    payload,                \* call_gemini_progress_insights local
    motivation,             \* call_gemini_weekly_motivation local (text)
    first_out,              \* what the first generate_content of a progress or
                            \* motivation request gave
    fix_out,                \* what its corrective generate_content gave
    flush_result,           \* what the trace flush of _opik_flush_middleware did
    middleware_response,    \* the response _opik_flush_middleware returns
    judge_in,               \* raw output handed to the judge's parser
    judge_out,              \* what call_gemini_empathy_judge made of it
    fn_arg,                 \* argument of a helper function evaluated on its own
    fn_ret                  \* Optional: what the helper returned for fn_arg

chatVars == <<raw_draft, ai_reply_retry, ai_reply, deal_label, deal_made,
              empathy_score, empathy_rationale, retry_used,
              initial_empathy_score>>
envVars == <<env_retry_flag, env_retry_threshold>>
reqVars == <<op, pc, user_message, current_goal, language, calls, results,
             response>>
progVars == <<chat_history, payload, motivation>>
replyVars == <<first_out, fix_out>>
judgeVars == <<judge_in, judge_out>>
evalVars == <<fn_arg, fn_ret>>
obsVars == <<flush_result, middleware_response>>
vars == <<envVars, reqVars, chatVars, progVars, judgeVars, evalVars, replyVars,
          obsVars>>

(***************************************************************************)
(* Bounds of the model.                                                    *)
(***************************************************************************)
\* RETRY_EMPATHY_THRESHOLD ranges over the integers -1 .. MaxThresholdEnv.
MaxThresholdEnv == 6
\* A numeric "empathy" field ranges over -MaxRawEmpathy .. MaxRawEmpathy,
\* in steps of one tenth.
MaxRawEmpathy == 7
\* _extract_deal_meta is evaluated on texts of at most MaxDealPieces pieces.
MaxDealPieces == 3
\* completion_rate is evaluated on histories of at most MaxChats messages.
MaxChats == 21
\* _coerce_insights_bullets is evaluated on texts of at most MaxBulletPieces
\* pieces.
MaxBulletPieces == 3
\* The transcript builders are handed every history of at most
\* MaxMixedHistory messages of mixed roles and texts, and histories of at
\* most MaxHistory numbered messages.
\* _normalize_language is handed None and every text of at most
\* MaxLanguagePieces pieces.
MaxLanguagePieces == 4
MaxMixedHistory == 2
MaxHistory == 14

None == <<>>
Some(v) == <<v>>

(***************************************************************************)
(* Text helpers: Python's str.strip, str.rstrip, str.splitlines, join.     *)
(***************************************************************************)
Whitespace == {" ", "\n", "\t"}

IsBlank(s) == \A i \in 1..Len(s) : s[i] \in Whitespace

FirstInk(s) == CHOOSE i \in 1..Len(s) :
                  /\ s[i] \notin Whitespace
                  /\ \A k \in 1..(i-1) : s[k] \in Whitespace

LastInk(s) == CHOOSE i \in 1..Len(s) :
                  /\ s[i] \notin Whitespace
                  /\ \A k \in (i+1)..Len(s) : s[k] \in Whitespace

Strip(s) == IF IsBlank(s) THEN <<>> ELSE SubSeq(s, FirstInk(s), LastInk(s))

RStrip(s) == IF IsBlank(s) THEN <<>> ELSE SubSeq(s, 1, LastInk(s))

RECURSIVE SplitLines(_)
SplitLines(s) ==
    IF s = <<>> THEN <<>>
    ELSE IF \E i \in 1..Len(s) : s[i] = "\n"
         THEN LET i == CHOOSE k \in 1..Len(s) :
                           s[k] = "\n" /\ \A m \in 1..(k-1) : s[m] # "\n"
              IN  <<SubSeq(s, 1, i-1)>> \o SplitLines(SubSeq(s, i+1, Len(s)))
         ELSE <<s>>

RECURSIVE JoinLines(_)
JoinLines(ls) ==
    IF ls = <<>> THEN <<>>
    ELSE IF Len(ls) = 1 THEN ls[1]
    ELSE ls[1] \o <<"\n">> \o JoinLines(Tail(ls))

UpperLetters == <<"A", "B", "C", "D", "E", "F", "G", "H", "I", "J", "K", "L", "M",
                  "N", "O", "P", "Q", "R", "S", "T", "U", "V", "W", "X", "Y", "Z">>
LowerLetters == <<"a", "b", "c", "d", "e", "f", "g", "h", "i", "j", "k", "l", "m",
                  "n", "o", "p", "q", "r", "s", "t", "u", "v", "w", "x", "y", "z">>

UpperSet == {UpperLetters[i] : i \in 1..Len(UpperLetters)}
LowerSet == {LowerLetters[i] : i \in 1..Len(LowerLetters)}
LowerOf == [c \in UpperSet |->
              LowerLetters[CHOOSE i \in 1..Len(UpperLetters) : UpperLetters[i] = c]]
UpperOf == [c \in LowerSet |->
              UpperLetters[CHOOSE i \in 1..Len(LowerLetters) : LowerLetters[i] = c]]

\* str.lower() and str.upper() on one character
Lower(c) == IF c \in UpperSet THEN LowerOf[c] ELSE c
Upper(c) == IF c \in LowerSet THEN UpperOf[c] ELSE c

(***************************************************************************)
(* _normalize_language and _looks_indonesian.                              *)
(***************************************************************************)
IsLowerLetter(c) == c \in LowerSet
IsLetter(c) == c \in LowerSet \/ c \in UpperSet

LowerText(s) == [i \in 1..Len(s) |-> Lower(s[i])]

T_en == <<"e", "n">>

\* raw.split("-")[0]
BeforeFirstDash(s) ==
    IF \E i \in 1..Len(s) : s[i] = "-"
    THEN SubSeq(s, 1, (CHOOSE i \in 1..Len(s) :
                          s[i] = "-" /\ \A k \in 1..(i-1) : s[k] # "-") - 1)
    ELSE s

\* re.match(r"^[a-z]{2,3}$", primary): "$" also matches before a final newline
MatchesLanguageCode(primary) ==
    LET core == IF primary # <<>> /\ primary[Len(primary)] = "\n"
                THEN SubSeq(primary, 1, Len(primary) - 1)
                ELSE primary
    IN  /\ Len(core) \in {2, 3}
        /\ \A i \in 1..Len(core) : IsLowerLetter(core[i])

\* lang is Optional
_normalize_language(lang) ==
    IF lang = None \/ lang[1] = <<>> THEN T_en
    ELSE LET lowered == LowerText(Strip(lang[1]))
             raw == [i \in 1..Len(lowered) |->
                        IF lowered[i] = "_" THEN "-" ELSE lowered[i]]
             primary == BeforeFirstDash(raw)
         IN  IF raw = <<>> THEN T_en
             ELSE IF ~MatchesLanguageCode(primary) THEN T_en
             ELSE primary

_ID_STOPWORDS ==
    {<<"y", "a", "n", "g">>,
     <<"u", "n", "t", "u", "k">>,
     <<"d", "a", "n">>,
     <<"d", "a", "r", "i">>,
     <<"d", "e", "n", "g", "a", "n">>,
     <<"k", "a", "m", "u">>,
     <<"a", "n", "d", "a">>,
     <<"a", "y", "o">>,
     <<"h", "a", "r", "i">>,
     <<"i", "n", "i">>,
     <<"j", "a", "n", "g", "a", "n">>,
     <<"b", "i", "s", "a">>,
     <<"s", "a", "j", "a">>,
     <<"l", "e", "b", "i", "h">>,
     <<"m", "u", "l", "a", "i">>,
     <<"w", "a", "k", "t", "u">>,
     <<"a", "m", "b", "i", "l">>,
     <<"b", "u", "k", "u">>,
     <<"b", "u", "k", "u", "m", "u">>,
     <<"b", "a", "c", "a">>,
     <<"s", "a", "t", "u">>,
     <<"h", "a", "l", "a", "m", "a", "n">>,
     <<"t", "e", "t", "a", "p">>,
     <<"s", "e", "m", "a", "n", "g", "a", "t">>,
     <<"k", "a", "r", "e", "n", "a">>,
     <<"k", "a", "l", "a", "u">>,
     <<"b", "a", "n", "g", "e", "t">>}

\* str.split(): the maximal runs of non-whitespace
RECURSIVE SplitWords(_)
SplitWords(s) ==
    IF IsBlank(s) THEN <<>>
    ELSE LET a == FirstInk(s)
             rest == SubSeq(s, a, Len(s))
             n == IF \E i \in 1..Len(rest) : rest[i] \in Whitespace
                  THEN (CHOOSE i \in 1..Len(rest) :
                           /\ rest[i] \in Whitespace
                           /\ \A k \in 1..(i-1) : rest[k] \notin Whitespace) - 1
                  ELSE Len(rest)
         IN  <<SubSeq(rest, 1, n)>> \o SplitWords(SubSeq(rest, n + 1, Len(rest)))

_looks_indonesian(text) ==
    IF text = <<>> THEN FALSE
    ELSE LET cleaned == [i \in 1..Len(text) |->
                            IF IsLetter(text[i]) \/ text[i] \in Whitespace
                            THEN Lower(text[i]) ELSE " "]
             tokens == SplitWords(cleaned)
             hits == Cardinality({i \in 1..Len(tokens) : tokens[i] \in _ID_STOPWORDS})
         IN  IF tokens = <<>> THEN FALSE
             ELSE hits >= 2 \/ (hits >= 1 /\ 5 * hits >= Len(tokens))

(***************************************************************************)
(* _coerce_insights_bullets.  The value is None, a list of strings or a    *)
(* string.  json.loads of an array-shaped string is modelled for the       *)
(* arrays whose elements are plain strings (no escapes); a string holding  *)
(* any other array is outside the inputs of this model.                    *)
(***************************************************************************)
\* the one character U+2022 (a bullet)
BulletChar == "U+2022"

IvNone == [t |-> "none", items |-> <<>>, s |-> <<>>]
IvList(items) == [t |-> "list", items |-> items, s |-> <<>>]
IvText(s) == [t |-> "str", items |-> <<>>, s |-> s]

\* str.lstrip("-")
LStripDashes(s) ==
    IF \A i \in 1..Len(s) : s[i] = "-" THEN <<>>
    ELSE SubSeq(s, CHOOSE i \in 1..Len(s) :
                       s[i] # "-" /\ \A k \in 1..(i-1) : s[k] = "-", Len(s))

StartsWith(s, pre) ==
    Len(s) >= Len(pre) /\ SubSeq(s, 1, Len(pre)) = pre

\* "\n".join([f"- {i.lstrip('-').strip()}" for i in items]) over the items
\* whose str(v).strip() is not empty
RECURSIVE BulletItems(_)
BulletItems(items) ==
    IF items = <<>> THEN <<>>
    ELSE IF Strip(items[1]) = <<>> THEN BulletItems(Tail(items))
    ELSE <<<<"-", " ">> \o Strip(LStripDashes(Strip(items[1])))>>
         \o BulletItems(Tail(items))

\* the position of the first character at or after p that is not JSON
\* whitespace, Len(s) + 1 when there is none
JsonSkipWs(s, p) ==
    IF \E q \in p..Len(s) : s[q] \notin Whitespace
    THEN CHOOSE q \in p..Len(s) :
             s[q] \notin Whitespace /\ \A k \in p..(q-1) : s[k] \in Whitespace
    ELSE Len(s) + 1

\* the two-character escapes read here: \" \\ \/ \n \t
JsonEscapes == {"\"", "\\", "/", "n", "t"}
JsonEscapeOf(c) ==
    CASE c = "n" -> "\n"
      [] c = "t" -> "\t"
      [] OTHER -> c

JsonStringFail == [end |-> 0, text |-> <<>>]

\* the JSON string whose first character after the opening quote is at p:
\* the position of its closing quote and the text it stands for; end is 0
\* when json.loads rejects it (no closing quote, a raw control character)
\* or the escape is not one of JsonEscapes
RECURSIVE JsonStringBody(_, _)
JsonStringBody(s, p) ==
    IF p > Len(s) THEN JsonStringFail
    ELSE IF s[p] = "\"" THEN [end |-> p, text |-> <<>>]
    ELSE IF s[p] \in {"\n", "\t"} THEN JsonStringFail
    ELSE IF s[p] = "\\"
    THEN IF p + 1 <= Len(s) /\ s[p + 1] \in JsonEscapes
         THEN LET rest == JsonStringBody(s, p + 2) IN
              IF rest.end = 0 THEN JsonStringFail
              ELSE [end |-> rest.end, text |-> <<JsonEscapeOf(s[p + 1])>> \o rest.text]
         ELSE JsonStringFail
    ELSE LET rest == JsonStringBody(s, p + 1) IN
         IF rest.end = 0 THEN JsonStringFail
         ELSE [end |-> rest.end, text |-> <<s[p]>> \o rest.text]

JsonArrayFail == [ok |-> FALSE, items |-> <<>>]

\* the elements of the array from position p on, p at an element; only
\* arrays of strings are read
RECURSIVE JsonArrayElems(_, _)
JsonArrayElems(s, p) ==
    LET str == IF p <= Len(s) /\ s[p] = "\"" THEN JsonStringBody(s, p + 1)
               ELSE JsonStringFail
        q == str.end
    IN
    IF q = 0 THEN JsonArrayFail
    ELSE LET item == str.text
             r == JsonSkipWs(s, q + 1)
         IN  IF r = Len(s) /\ s[r] = "]"
             THEN [ok |-> TRUE, items |-> <<item>>]
             ELSE IF r < Len(s) /\ s[r] = ","
             THEN LET rest == JsonArrayElems(s, JsonSkipWs(s, r + 1)) IN
                  IF rest.ok THEN [ok |-> TRUE, items |-> <<item>> \o rest.items]
                  ELSE JsonArrayFail
             ELSE JsonArrayFail

\* json.loads(text) for a text that starts with "[" and ends with "]"
JsonArrayDecode(text) ==
    LET p == JsonSkipWs(text, 2) IN
    IF p = Len(text) THEN [ok |-> Len(text) >= 2, items |-> <<>>]
    ELSE JsonArrayElems(text, p)

RECURSIVE BulletLines(_)
BulletLines(lines) ==
    IF lines = <<>> THEN <<>>
    ELSE IF Strip(lines[1]) = <<>> THEN BulletLines(Tail(lines))
    ELSE LET line == Strip(lines[1]) IN
         <<IF StartsWith(line, <<"-", " ">>) THEN line
           ELSE IF StartsWith(line, <<BulletChar, " ">>)
                THEN <<"-", " ">> \o Strip(SubSeq(line, 3, Len(line)))
           ELSE <<"-", " ">> \o Strip(LStripDashes(line))>>
         \o BulletLines(Tail(lines))

\* text.split("\n"): like SplitLines, with the empty pieces kept
RECURSIVE SplitOnNewline(_)
SplitOnNewline(s) ==
    IF \E i \in 1..Len(s) : s[i] = "\n"
    THEN LET i == CHOOSE k \in 1..Len(s) :
                      s[k] = "\n" /\ \A m \in 1..(k-1) : s[m] # "\n"
         IN  <<SubSeq(s, 1, i-1)>> \o SplitOnNewline(SubSeq(s, i+1, Len(s)))
    ELSE <<s>>

_coerce_insights_bullets(value) ==
    IF value.t = "none" THEN <<>>
    ELSE IF value.t = "list" THEN JoinLines(BulletItems(value.items))
    ELSE LET text == Strip(value.s)
             decoded == JsonArrayDecode(text)
         IN  IF text = <<>> THEN <<>>
             ELSE IF text[1] = "[" /\ text[Len(text)] = "]" /\ decoded.ok
             THEN JoinLines(BulletItems(decoded.items))
             ELSE JoinLines(BulletLines(SplitOnNewline(text)))

(***************************************************************************)
(* _estimate_micro_habits_offered.  A pattern is a sequence of elements: a *)
(* literal character, an optional character ("x?") or a run of whitespace  *)
(* ("\s*"); every pattern of the list stands between two "\b".             *)
(***************************************************************************)
Digits == {"0", "1", "2", "3", "4", "5", "6", "7", "8", "9"}
IsWordChar(c) == IsLetter(c) \/ c \in Digits \/ c = "_"

PLit(c) == [k |-> "lit", c |-> c]
POpt(c) == [k |-> "opt", c |-> c]
PWs == [k |-> "ws", c |-> " "]
Lit(w) == [i \in 1..Len(w) |-> PLit(w[i])]

\* "\b" between s[i-1] and s[i]
WordBoundaryAt(s, i) ==
    LET before == i - 1 >= 1 /\ i - 1 <= Len(s) /\ IsWordChar(s[i-1])
        after == i >= 1 /\ i <= Len(s) /\ IsWordChar(s[i])
    IN  before # after

\* pat[j..] matches s from position i on and ends at a word boundary
RECURSIVE PatternMatches(_, _, _, _)
PatternMatches(s, i, pat, j) ==
    IF j > Len(pat) THEN WordBoundaryAt(s, i)
    ELSE IF pat[j].k = "lit"
         THEN i <= Len(s) /\ s[i] = pat[j].c /\ PatternMatches(s, i + 1, pat, j + 1)
    ELSE IF pat[j].k = "opt"
         THEN \/ i <= Len(s) /\ s[i] = pat[j].c /\ PatternMatches(s, i + 1, pat, j + 1)
              \/ PatternMatches(s, i, pat, j + 1)
    ELSE \/ PatternMatches(s, i, pat, j + 1)
         \/ i <= Len(s) /\ s[i] \in Whitespace /\ PatternMatches(s, i + 1, pat, j)

\* re.search(p, text)
PatternFound(s, pat) ==
    \E i \in 1..Len(s) : WordBoundaryAt(s, i) /\ PatternMatches(s, i, pat, 1)

MinutePattern(d) ==
    <<PLit(d), PWs, POpt("-"), PWs>> \o Lit(<<"m", "i", "n", "u", "t", "e">>)

MicroHabitPatterns ==
    {Lit(<<"h", "o", "w", " ", "a", "b", "o", "u", "t">>),
     Lit(<<"l", "e", "t">>) \o <<POpt("'"), PLit("s")>>,
     Lit(<<"c", "o", "m", "m", "i", "t">>),
     Lit(<<"j", "u", "s", "t">>),
     MinutePattern("2"),
     MinutePattern("5"),
     Lit(<<"m", "i", "c", "r", "o">>) \o <<PWs, POpt("-"), PWs>>
         \o Lit(<<"h", "a", "b", "i", "t">>),
     Lit(<<"t", "i", "n", "y">>)}

T_model == <<"m", "o", "d", "e", "l">>
T_assistant == <<"a", "s", "s", "i", "s", "t", "a", "n", "t">>

\* a history message; role and text are texts
Msg(role, text) == [role |-> role, text |-> text]

OffersMicroHabit(msg) ==
    /\ msg.role \in {T_model, T_assistant}
    /\ \E pat \in MicroHabitPatterns : PatternFound(LowerText(msg.text), pat)

_estimate_micro_habits_offered(history) ==
    Cardinality({i \in 1..Len(history) : OffersMicroHabit(history[i])})

(***************************************************************************)
(* The fixed texts of the progress, motivation and persona operations.     *)
(* "U+2014" is the one character U+2014 (a dash).                          *)
(***************************************************************************)
InsightsFallback ==
    <<"-", " ", "K", "e", "e", "p", " ", "t", "h", "e", " ", "h", "a",
      "b", "i", "t", " ", "t", "i", "n", "y", " ", "t", "o", "d", "a",
      "y", ".", "\n", "-", " ", "P", "i", "c", "k", " ", "o", "n", "e",
      " ", "m", "i", "c", "r", "o", "-", "s", "t", "e", "p", " ", "a",
      "n", "d", " ", "d", "o", " ", "i", "t", " ", "n", "o", "w", ".",
      "\n", "-", " ", "C", "o", "n", "s", "i", "s", "t", "e", "n", "c",
      "y", " ", "b", "e", "a", "t", "s", " ", "i", "n", "t", "e", "n",
      "s", "i", "t", "y", ".">>

MotivationEndpointFallback ==
    <<"K", "e", "e", "p", " ", "i", "t", " ", "t", "i", "n", "y", " ",
      "t", "o", "d", "a", "y", "U+2014", "o", "n", "e", " ", "s", "m",
      "a", "l", "l", " ", "a", "c", "t", "i", "o", "n", " ", "k", "e",
      "e", "p", "s", " ", "t", "h", "e", " ", "h", "a", "b", "i", "t",
      " ", "a", "l", "i", "v", "e", ".">>

MotivationFallback ==
    <<"T", "i", "n", "y", " ", "s", "t", "e", "p", "s", " ", "c", "o",
      "u", "n", "t", "U+2014", "d", "o", " ", "t", "h", "e", " ", "s",
      "m", "a", "l", "l", "e", "s", "t", " ", "v", "e", "r", "s", "i",
      "o", "n", " ", "t", "o", "d", "a", "y", " ", "a", "n", "d", " ",
      "k", "e", "e", "p", " ", "t", "h", "e", " ", "s", "t", "r", "e",
      "a", "k", " ", "a", "l", "i", "v", "e", ".">>

DefaultArchetypeTitle ==
    <<"T", "h", "e", " ", "S", "t", "r", "a", "t", "e", "g", "i", "c",
      " ", "P", "e", "n", "g", "u">>

DefaultDescription ==
    <<"Y", "o", "u", "'", "r", "e", " ", "g", "r", "e", "a", "t", " ",
      "a", "t", " ", "s", "h", "r", "i", "n", "k", "i", "n", "g", " ",
      "t", "h", "e", " ", "g", "o", "a", "l", " ", "w", "h", "i", "l",
      "e", " ", "s", "t", "i", "l", "l", " ", "m", "o", "v", "i", "n",
      "g", " ", "f", "o", "r", "w", "a", "r", "d", ".", " ", "S", "l",
      "o", "w", " ", "a", "n", "d", " ", "s", "t", "e", "a", "d", "y",
      " ", "U+2014", " ", "c", "o", "n", "s", "i", "s", "t", "e", "n",
      "c", "y", " ", "w", "i", "n", "s", ".">>

T_PENGU == <<"P", "E", "N", "G", "U">>

_ALLOWED_AVATAR_IDS ==
    {<<"K", "U", "N", "G", "_", "F", "U", "_", "F", "O", "X">>,
     <<"L", "I", "O", "N">>,
     <<"N", "I", "N", "J", "A", "_", "T", "U", "R", "T", "L", "E">>,
     <<"P", "E", "N", "G", "U">>,
     <<"S", "P", "O", "R", "T", "Y", "_", "C", "A", "T">>,
     <<"W", "O", "R", "K", "O", "U", "T", "_", "W", "O", "L", "F">>}

(***************************************************************************)
(* _DEAL_TAG_RE and _extract_deal_meta.                                    *)
(***************************************************************************)
TagOpen == <<"<", "D", "E", "A", "L", ">">>
TagClose == <<"<", "/", "D", "E", "A", "L", ">">>

\* pat occurs in s at position i, letters compared case-insensitively
MatchAt(s, i, pat) ==
    /\ i >= 1
    /\ i + Len(pat) - 1 <= Len(s)
    /\ \A k \in 1..Len(pat) : Lower(s[i + k - 1]) = Lower(pat[k])

\* a match of <DEAL>(.*?)</DEAL> starts at i: an opening tag, and a closing
\* tag somewhere after it
DealStartsAt(s, i) ==
    /\ MatchAt(s, i, TagOpen)
    /\ \E j \in (i + Len(TagOpen))..Len(s) : MatchAt(s, j, TagClose)

\* the non-greedy group ends at the first closing tag after the opening one
DealCloseOf(s, i) ==
    CHOOSE j \in (i + Len(TagOpen))..Len(s) :
        /\ MatchAt(s, j, TagClose)
        /\ \A m \in (i + Len(TagOpen))..(j-1) : ~MatchAt(s, m, TagClose)

DealSearchLast(s, p) ==
    IF \E i \in p..Len(s) : DealStartsAt(s, i)
    THEN CHOOSE i \in p..Len(s) :
             DealStartsAt(s, i) /\ \A m \in (i+1)..Len(s) : ~DealStartsAt(s, m)
    ELSE 0

\* _DEAL_TAG_RE.search from position p: the leftmost match, or 0
DealSearch(s, p) ==
    IF \E i \in p..Len(s) : DealStartsAt(s, i)
    THEN CHOOSE i \in p..Len(s) :
             DealStartsAt(s, i) /\ \A m \in p..(i-1) : ~DealStartsAt(s, m)
    ELSE 0

\* _DEAL_TAG_RE.sub("", s) from position p: every non-overlapping match,
\* left to right, is removed
RECURSIVE DealSub(_, _)
DealSub(s, p) ==
    LET i == DealSearch(s, p) IN
    IF i = 0 THEN SubSeq(s, p, Len(s))
    ELSE SubSeq(s, p, i-1) \o DealSub(s, DealCloseOf(s, i) + Len(TagClose))

RECURSIVE KeepInkLines(_)
KeepInkLines(ls) ==
    IF ls = <<>> THEN <<>>
    ELSE IF IsBlank(ls[1]) THEN KeepInkLines(Tail(ls))
    ELSE <<RStrip(ls[1])>> \o KeepInkLines(Tail(ls))

ExtractDealMetaUntrimmed(text) ==
    [cleaned |-> DealSub(text, 1), label |-> None]

\* the pair (cleaned, label) as a record; label is Optional
_extract_deal_meta(text) ==
    LET raw == Strip(text) IN
    IF raw = <<>> THEN [cleaned |-> <<>>, label |-> None]
    ELSE LET i == DealSearch(raw, 1) IN
         IF i = 0 THEN [cleaned |-> raw, label |-> None]
         ELSE LET j       == DealCloseOf(raw, i)
                  label   == Strip(SubSeq(raw, i + Len(TagOpen), j - 1))
                  subbed  == Strip(DealSub(raw, 1))
                  cleaned == Strip(JoinLines(KeepInkLines(SplitLines(subbed))))
              IN  [cleaned |-> cleaned,
                   label   |-> IF label = <<>> THEN None ELSE Some(label)]

(***************************************************************************)
(* call_gemini_empathy_judge: what it makes of the gateway's raw output.   *)
(* A raw output is described by what json.loads gives for it: the shape of *)
(* the parsed value and, for an object, its "empathy" and "rationale"      *)
(* members.  A number is held in tenths (25 is 2.5); "inf" stands for a    *)
(* number json.loads yields as an infinity (1e999, Infinity) or as an      *)
(* integer too large for float(), "nan" for NaN.                           *)
(***************************************************************************)
JsonAbsent == [t |-> "absent", v |-> 0]
JsonNull == [t |-> "null", v |-> 0]
JsonBool(b) == [t |-> "bool", v |-> IF b THEN 1 ELSE 0]
JsonNum(tenths) == [t |-> "num", v |-> tenths]
\* sign is 1 or -1
JsonInf(sign) == [t |-> "inf", v |-> sign]
JsonNaN == [t |-> "nan", v |-> 0]
JsonStr == [t |-> "str", v |-> 0]

T_ok == <<"o", "k">>
T_space == <<" ">>

\* the "rationale" member: absent, or a string
RationaleRaws == {None, Some(T_ok), Some(T_space)}

JudgeRaw(shape, e, r) == [shape |-> shape, empathy |-> e, rationale |-> r]

\* Python's round(): to the nearest integer, a tie to the even one
PyRound(tenths) ==
    LET q == tenths \div 10
        r == tenths % 10
    IN  IF r < 5 THEN q
        ELSE IF r > 5 THEN q + 1
        ELSE IF q % 2 = 0 THEN q ELSE q + 1

Max(a, b) == IF a >= b THEN a ELSE b
Min(a, b) == IF a <= b THEN a ELSE b

ClampEmpathyUnclamped(tenths) == PyRound(tenths)

\* empathy = int(round(float(empathy))); empathy = max(1, min(5, empathy))
ClampEmpathy(tenths) == Max(1, Min(5, PyRound(tenths)))

JudgeFail == [ok |-> FALSE, empathy |-> 0, rationale |-> <<>>]

\* the part of call_gemini_empathy_judge after the gateway returned raw
JudgeParse(raw) ==
    IF raw.shape # "object" THEN JudgeFail       \* json.loads / not a dict
    ELSE LET e == raw.empathy
             rt == IF raw.rationale = None THEN <<>>
                   ELSE Strip(raw.rationale[1])
         IN  IF e.t = "bool"
             THEN [ok |-> TRUE,
                   empathy |-> ClampEmpathy(10 * (IF e.v = 1 THEN 5 ELSE 1)),
                   rationale |-> rt]
             ELSE IF e.t = "num"
             THEN [ok |-> TRUE, empathy |-> ClampEmpathy(e.v), rationale |-> rt]
             ELSE JudgeFail    \* not int/float, or round() of inf/nan raises

\* what a gateway call of the judge can come back with
GatewayFailures == {"timeout", "deadline", "unauthenticated", "error"}

EmpathyRaws ==
    {JsonAbsent, JsonNull, JsonStr, JsonInf(1), JsonInf(-1), JsonNaN,
     JsonBool(TRUE), JsonBool(FALSE)}
    \cup {JsonNum(n) : n \in (-10 * MaxRawEmpathy)..(10 * MaxRawEmpathy)}

JudgeRaws ==
    {JudgeRaw("unparsable", JsonAbsent, None),
     JudgeRaw("nonobject", JsonAbsent, None)}
    \cup {JudgeRaw("object", e, r) : e \in EmpathyRaws, r \in RationaleRaws}

\* the raw outputs the judge returns inside a /chat request
ChatJudgeRaws ==
    {JudgeRaw("unparsable", JsonAbsent, None),
     JudgeRaw("object", JsonStr, None),
     JudgeRaw("object", JsonInf(1), None),
     JudgeRaw("object", JsonBool(TRUE), Some(T_ok)),
     JudgeRaw("object", JsonNum(10), None),
     JudgeRaw("object", JsonNum(20), Some(T_ok)),
     JudgeRaw("object", JsonNum(30), Some(T_space)),
     JudgeRaw("object", JsonNum(40), None),
     JudgeRaw("object", JsonNum(70), None)}

(***************************************************************************)
(* The completion gateway: model.generate_content either raises or gives   *)
(* a response whose .text the caller reads.                                *)
(***************************************************************************)
GwFail(f) == [fail |-> f, text |-> <<>>]
GwText(t) == [fail |-> "none", text |-> t]
JgFail(f) == [fail |-> f, raw |-> JudgeRaw("unparsable", JsonAbsent, None)]
JgText(r) == [fail |-> "none", raw |-> r]

\* call_gemini_empathy_judge as a whole: the gateway call, then the parsing
JudgeCall(out) == IF out.fail # "none" THEN JudgeFail ELSE JudgeParse(out.raw)

T_Hi == <<"H", "i">>
T_go == <<"g", "o">>
T_run == <<"r", "u", "n">>
TagOpenLower == <<"<", "d", "e", "a", "l", ">">>
TagCloseLower == <<"<", "/", "d", "e", "a", "l", ">">>

\* the texts the model gives back for a draft or a retry
ReplyTexts ==
    {<<>>,
     <<" ", "\n">>,
     T_Hi,
     <<" ">> \o T_Hi \o <<"\n">>,
     T_Hi \o <<"\n">> \o TagOpen \o T_go \o TagClose,
     T_Hi \o <<" ">> \o TagOpenLower \o <<" ">> \o T_run \o TagCloseLower,
     T_Hi \o <<"\n">> \o TagOpen \o <<" ">> \o TagClose,
     TagOpen \o T_go \o TagClose,
     T_Hi \o TagOpen \o T_go \o TagClose \o <<"\n">> \o TagOpenLower \o T_run
          \o TagCloseLower,
     <<"<", "D", "E">> \o TagOpen \o T_go \o TagClose \o <<"A", "L", ">">> \o T_run
          \o TagClose}

GenOutcomes == {GwFail(f) : f \in GatewayFailures} \cup {GwText(t) : t \in ReplyTexts}
ChatJudgeOutcomes ==
    {JgFail(f) : f \in {"timeout", "error"}} \cup {JgText(r) : r \in ChatJudgeRaws}

Messages == {<<>>, <<" ", "\n">>, T_Hi}
Goals == {<<>>, <<"\t", " ">>, T_run}

(***************************************************************************)
(* Configuration read by chat_endpoint.                                    *)
(***************************************************************************)
\* RETRY_ON_LOW_EMPATHY after str(...).strip().lower(); "unset" is the
\* variable not being set
\* None when the variable is not set
EnvFlagValues ==
    {None, Some(<<"f", "a", "l", "s", "e">>), Some(<<"0">>), Some(<<"2">>),
     Some(<<" ", "T", "R", "U", "E", "\n">>), Some(<<"O", "n">>)}

EnvUnset == [t |-> "unset", v |-> 0]
EnvInt(n) == [t |-> "int", v |-> n]
EnvBad == [t |-> "bad", v |-> 0]      \* a value int() rejects
EnvThresholdValues ==
    {EnvUnset, EnvBad} \cup {EnvInt(n) : n \in (-1)..MaxThresholdEnv}

DefaultThreshold == 3
MinScore == 1
MaxScore == 5

EnabledWords ==
    {<<"1">>, <<"t", "r", "u", "e">>, <<"y", "e", "s">>, <<"o", "n">>}

RetryEnabledDefaultOn(flag) ==
    LowerText(Strip(IF flag = None THEN <<"t", "r", "u", "e">> ELSE flag[1]))
        \in EnabledWords

\* str(os.getenv("RETRY_ON_LOW_EMPATHY", "false")).strip().lower() in {...}
RetryEnabled(flag) ==
    LowerText(Strip(IF flag = None THEN <<"f", "a", "l", "s", "e">> ELSE flag[1]))
        \in EnabledWords

\* int(os.getenv("RETRY_EMPATHY_THRESHOLD", "3")) raises on a non-integer
ThresholdParses(env) == env.t # "bad"

RetryThreshold(env) ==
    Max(MinScore, Min(MaxScore, IF env.t = "unset" THEN DefaultThreshold ELSE env.v))

ShouldRetryLax(enabled, score, threshold) == enabled /\ score <= threshold

ShouldRetry(enabled, score, threshold) == enabled /\ score < threshold

DraftFailureStatusFlat(f) == 500

\* the except clauses of call_gemini_negotiator
DraftFailureStatus(f) ==
    CASE f = "timeout" -> 504
      [] f = "deadline" -> 504
      [] f = "unauthenticated" -> 401
      [] OTHER -> 500

\* str(judged.get("rationale") or "").strip() or None
RationaleOrNone(r) == IF Strip(r) = <<>> THEN None ELSE Some(Strip(r))

MergeDealLabelKeep(label, label_retry) == label

\* if deal_label_retry: deal_label = deal_label_retry
MergeDealLabel(label, label_retry) ==
    IF label_retry # None THEN label_retry ELSE label

NoResponse == [status |-> 0]
NoOutput == [fail |-> "unasked"]
NoPayload == [insights |-> <<>>, mh |-> JsonAbsent]
ErrorResponse(code) == [status |-> code]

ChatResponse(reply, made, label, score, rationale, retried, initial) ==
    [status |-> 200,
     response |-> reply,
     deal_made |-> made,
     deal_label |-> label,
     empathy_score |-> score,
     empathy_rationale |-> rationale,
     retry_used |-> retried,
     initial_empathy_score |-> initial]

Call(kind, arg) == [kind |-> kind, arg |-> arg]
\* fail is "none" for a call that returned a usable value
Result(kind, fail, score) == [kind |-> kind, fail |-> fail, score |-> score]

\* how a generation call failed: the gateway's exception, or an empty text
GenFailure(out) ==
    IF out.fail # "none" THEN out.fail
    ELSE IF Strip(out.text) = <<>> THEN "empty" ELSE "none"

\* how a judge call failed: the gateway's exception, or an invalid judgment
JudgeFailure(out) ==
    IF out.fail # "none" THEN out.fail
    ELSE IF ~JudgeParse(out.raw).ok THEN "invalid" ELSE "none"

RequestFieldBlankNoTrim(s) == s = <<>>

\* "not request.<field>.strip()"
RequestFieldBlank(s) == Strip(s) = <<>>

AbsorbedFailureFatal(resp) == ErrorResponse(500)

\* "except Exception as e: logger.warning(...)": the failure is swallowed and
\* the handler goes on to return the response built from its locals
AbsorbedFailure(resp) == resp

ReplyOnRejudgeFailureEager(original, retried) == retried

\* ai_reply = ai_reply_retry comes after judged2 = call_gemini_empathy_judge(...)
\* in the try block, so a raising re-judge leaves ai_reply as it was
ReplyOnRejudgeFailure(original, retried) == original

FinalScoreStale(first, second) == first

\* empathy_score = float(judged2.get("empathy"))
FinalScore(first, second) == second

(***************************************************************************)
(* The state after construction: no request is being handled.              *)
(***************************************************************************)
IdleRequest ==
    /\ op = "none"
    /\ pc = "idle"
    /\ user_message = <<>>
    /\ current_goal = <<>>
    /\ language = None
    /\ calls = <<>>
    /\ results = <<>>
    /\ response = NoResponse
    /\ raw_draft = <<>>
    /\ ai_reply_retry = <<>>
    /\ ai_reply = <<>>
    /\ deal_label = None
    /\ deal_made = FALSE
    /\ empathy_score = None
    /\ empathy_rationale = None
    /\ retry_used = FALSE
    /\ initial_empathy_score = None
    /\ chat_history = <<>>
    /\ payload = NoPayload
    /\ motivation = <<>>
    /\ first_out = NoOutput
    /\ fix_out = NoOutput
    /\ flush_result = "none"
    /\ middleware_response = NoResponse

JudgeIdle == [ok |-> FALSE, empathy |-> 0, rationale |-> <<"-">>]

Init ==
    /\ env_retry_flag \in EnvFlagValues
    /\ env_retry_threshold \in EnvThresholdValues
    /\ IdleRequest
    /\ judge_in = JgFail("error")
    /\ judge_out = JudgeIdle
    /\ fn_arg = <<>>
    /\ fn_ret = None

(***************************************************************************)
(* POST /chat: chat_endpoint.                                              *)
(***************************************************************************)
\* the validation, then the call of call_gemini_negotiator
ChatRequest ==
    /\ pc = "idle"
    /\ \E m \in Messages, g \in Goals :
         /\ op' = "chat"
         /\ user_message' = m
         /\ current_goal' = g
         /\ IF RequestFieldBlank(m) \/ RequestFieldBlank(g)
            THEN /\ response' = ErrorResponse(400)
                 /\ pc' = "done"
                 /\ calls' = calls
            ELSE /\ response' = response
                 /\ pc' = "drafting"
                 /\ calls' = Append(calls, Call("draft", m))
    /\ UNCHANGED <<language, results, envVars, chatVars, judgeVars, evalVars, obsVars, replyVars, progVars>>

\* call_gemini_negotiator returns or raises; on a reply, the deal tag is
\* extracted and call_gemini_empathy_judge is called on the cleaned reply
DraftReturns ==
    /\ op = "chat" /\ pc = "drafting"
    /\ \E out \in GenOutcomes :
         LET text == Strip(out.text)
             meta == _extract_deal_meta(text)
         IN
         IF GenFailure(out) # "none"
         THEN /\ response' = ErrorResponse(DraftFailureStatus(GenFailure(out)))
              /\ results' = Append(results, Result("draft", GenFailure(out), 0))
              /\ pc' = "done"
              /\ UNCHANGED <<calls, chatVars>>
         ELSE /\ raw_draft' = text
              /\ ai_reply' = meta.cleaned
              /\ deal_label' = meta.label
              /\ deal_made' = (meta.label # None)
              /\ results' = Append(results, Result("draft", "none", 0))
              /\ calls' = Append(calls, Call("judge", meta.cleaned))
              /\ pc' = "judging"
              /\ UNCHANGED <<response, ai_reply_retry, empathy_score,
                             empathy_rationale, retry_used,
                             initial_empathy_score>>
    /\ UNCHANGED <<op, user_message, current_goal, language, envVars, judgeVars, evalVars, obsVars, replyVars,
                   progVars>>

\* the first call_gemini_empathy_judge returns or raises; the retry decision
JudgeReturns ==
    /\ op = "chat" /\ pc = "judging"
    /\ \E out \in ChatJudgeOutcomes :
         LET judged == JudgeCall(out)
             score == Some(judged.empathy)
             rationale == RationaleOrNone(judged.rationale)
         IN
         /\ results' = Append(results, Result("judge", JudgeFailure(out), judged.empathy))
         /\ IF ~judged.ok
            THEN /\ response' = AbsorbedFailure(
                        ChatResponse(ai_reply, deal_made, deal_label, empathy_score,
                                     empathy_rationale, retry_used,
                                     initial_empathy_score))
                 /\ pc' = "done"
                 /\ UNCHANGED <<calls, empathy_score, empathy_rationale,
                                initial_empathy_score>>
            ELSE /\ empathy_score' = score
                 /\ empathy_rationale' = rationale
                 /\ initial_empathy_score' = score
                 /\ IF ~ThresholdParses(env_retry_threshold)
                    THEN /\ response' = AbsorbedFailure(
                                ChatResponse(ai_reply, deal_made, deal_label, score,
                                             rationale, retry_used, score))
                         /\ pc' = "done"
                         /\ calls' = calls
                    ELSE IF ShouldRetry(RetryEnabled(env_retry_flag), judged.empathy,
                                        RetryThreshold(env_retry_threshold))
                    THEN /\ calls' = Append(calls, Call("retry", ai_reply))
                         /\ pc' = "retrying"
                         /\ response' = response
                    ELSE /\ response' = ChatResponse(ai_reply, deal_made, deal_label,
                                                     score, rationale, retry_used,
                                                     score)
                         /\ pc' = "done"
                         /\ calls' = calls
    /\ UNCHANGED <<op, user_message, current_goal, language, envVars, judgeVars, evalVars, obsVars, replyVars,
                   progVars,
                   raw_draft, ai_reply_retry, ai_reply, deal_label, deal_made,
                   retry_used>>

\* call_gemini_negotiator_retry returns or raises; on a reply,
\* call_gemini_empathy_judge is called on it
RetryReturns ==
    /\ op = "chat" /\ pc = "retrying"
    /\ \E out \in GenOutcomes :
         LET text == Strip(out.text) IN
         IF GenFailure(out) # "none"
         THEN /\ response' = AbsorbedFailure(
                     ChatResponse(ai_reply, deal_made, deal_label, empathy_score,
                                  empathy_rationale, retry_used,
                                  initial_empathy_score))
              /\ results' = Append(results, Result("retry", GenFailure(out), 0))
              /\ pc' = "done"
              /\ UNCHANGED <<calls, ai_reply_retry>>
         ELSE /\ ai_reply_retry' = text
              /\ results' = Append(results, Result("retry", "none", 0))
              /\ calls' = Append(calls, Call("rejudge", text))
              /\ pc' = "rejudging"
              /\ response' = response
    /\ UNCHANGED <<op, user_message, current_goal, language, envVars, judgeVars, evalVars, obsVars, replyVars,
                   progVars,
                   raw_draft, ai_reply, deal_label, deal_made, empathy_score,
                   empathy_rationale, retry_used, initial_empathy_score>>

\* a variant in which a retried reply that is judged low is retried again
RejudgeReturnsLoop ==
    /\ op = "chat" /\ pc = "rejudging"
    /\ \E out \in ChatJudgeOutcomes :
         LET judged == JudgeCall(out)
             meta == _extract_deal_meta(ai_reply_retry)
         IN
         /\ results' = Append(results, Result("rejudge", JudgeFailure(out), judged.empathy))
         /\ IF judged.ok /\ Len(calls) < 6
               /\ ShouldRetry(RetryEnabled(env_retry_flag), judged.empathy,
                              RetryThreshold(env_retry_threshold))
            THEN /\ calls' = Append(calls, Call("retry", meta.cleaned))
                 /\ pc' = "retrying"
                 /\ UNCHANGED <<response, ai_reply, deal_label, deal_made,
                                empathy_score, empathy_rationale, retry_used>>
            ELSE /\ response' = ChatResponse(ai_reply, deal_made, deal_label,
                                             empathy_score, empathy_rationale,
                                             retry_used, initial_empathy_score)
                 /\ pc' = "done"
                 /\ UNCHANGED <<calls, ai_reply, deal_label, deal_made,
                                empathy_score, empathy_rationale, retry_used>>
    /\ UNCHANGED <<op, user_message, current_goal, language, envVars, judgeVars, evalVars, obsVars, replyVars,
                   progVars,
                   raw_draft, ai_reply_retry, initial_empathy_score>>

\* the second call_gemini_empathy_judge returns or raises; the retried reply
\* replaces the original one only when it was judged
RejudgeReturns ==
    /\ op = "chat" /\ pc = "rejudging"
    /\ \E out \in ChatJudgeOutcomes :
         LET judged == JudgeCall(out)
             meta == _extract_deal_meta(ai_reply_retry)
             score == Some(FinalScore(initial_empathy_score[1], judged.empathy))
             rationale == RationaleOrNone(judged.rationale)
             label == MergeDealLabel(deal_label, meta.label)
             made == (deal_made \/ meta.label # None)
         IN
         /\ results' = Append(results, Result("rejudge", JudgeFailure(out), judged.empathy))
         /\ IF ~judged.ok
            THEN /\ ai_reply' = ReplyOnRejudgeFailure(ai_reply, ai_reply_retry)
                 /\ response' = AbsorbedFailure(
                        ChatResponse(ai_reply', deal_made, deal_label, empathy_score,
                                     empathy_rationale, retry_used,
                                     initial_empathy_score))
                 /\ UNCHANGED <<deal_label, deal_made, empathy_score,
                                empathy_rationale, retry_used>>
            ELSE /\ empathy_score' = score
                 /\ empathy_rationale' = rationale
                 /\ ai_reply' = meta.cleaned
                 /\ retry_used' = TRUE
                 /\ deal_label' = label
                 /\ deal_made' = made
                 /\ response' = ChatResponse(meta.cleaned, made, label, score,
                                             rationale, TRUE, initial_empathy_score)
         /\ pc' = "done"
    /\ UNCHANGED <<op, user_message, current_goal, language, envVars, judgeVars, evalVars, obsVars, replyVars,
                   progVars,
                   calls, raw_draft, ai_reply_retry, initial_empathy_score>>

(***************************************************************************)
(* POST /progress: progress_endpoint and call_gemini_progress_insights.    *)
(***************************************************************************)
\* what the gateway gives call_gemini_progress_insights: an exception, or a
\* text json.loads turns into a value of some shape; for an object, its
\* "insights" and "micro_habits_offered" members
InsFail(f) == [fail |-> f, shape |-> "unparsable", insights |-> IvNone, mh |-> JsonAbsent]
InsRaw(shape, iv, mh) == [fail |-> "none", shape |-> shape, insights |-> iv, mh |-> mh]

\* the call raises: the gateway failed, json.loads failed, or not a dict
InsightsRaises(out) == out.fail # "none" \/ out.shape # "object"

\* payload["insights"] = _coerce_insights_bullets(payload.get("insights"))
InsightsPayload(out) ==
    [insights |-> _coerce_insights_bullets(out.insights), mh |-> out.mh]

IsEnglish(lang) == _normalize_language(lang) = T_en

\* the condition of the corrective re-prompt
NeedsEnglishFix(lang, p) ==
    /\ IsEnglish(lang)
    /\ Strip(p.insights) # <<>>
    /\ _looks_indonesian(Strip(p.insights))

\* "payload = retry_payload" when the retry parses, is not empty and does
\* not look Indonesian; any failure of the retry is passed over
AfterInsightsFix(p, out) ==
    IF InsightsRaises(out) THEN p
    ELSE LET rp == InsightsPayload(out) IN
         IF Strip(rp.insights) # <<>> /\ ~_looks_indonesian(Strip(rp.insights))
         THEN rp ELSE p

FinalInsightsPayloadUnguarded(lang, p) ==
    IF Strip(p.insights) = <<>>
    THEN [p EXCEPT !.insights = InsightsFallback]
    ELSE p

\* the end of call_gemini_progress_insights
FinalInsightsPayload(lang, p) ==
    IF Strip(p.insights) = <<>>
    THEN [p EXCEPT !.insights = InsightsFallback]
    ELSE IF IsEnglish(lang) /\ _looks_indonesian(Strip(p.insights))
    THEN [p EXCEPT !.insights = InsightsFallback]
    ELSE p

\* int(): towards zero
TruncTenths(n) == IF n >= 0 THEN n \div 10 ELSE -((-n) \div 10)

\* micro_habits_from_ai: int(mh) for an int or a float (a bool is an int);
\* int() of an infinity or a NaN raises inside the try and leaves None
MicroHabitsFromAi(mh) ==
    IF mh.t = "num" THEN Some(TruncTenths(mh.v))
    ELSE IF mh.t = "bool" THEN Some(mh.v)
    ELSE None

CompletionRateUncapped(total_chats) == (total_chats * 100) \div 10

\* float(min(100.0, (min(total_chats, 10) / 10.0) * 100.0)); for 0..10 the
\* two floating-point operations are exact
CompletionRate(total_chats) == Min(100, (Min(total_chats, 10) * 100) \div 10)

ProgressResponseNoFallback(goal, history, insights, from_ai) ==
    LET heuristic == _estimate_micro_habits_offered(history)
        coerced == IF insights = None THEN <<>>
                   ELSE _coerce_insights_bullets(IvText(insights[1]))
    IN  [status |-> 200,
         data |-> [goal |-> goal,
                   total_chats |-> Len(history),
                   micro_habits_offered |->
                       Max(heuristic, IF from_ai = None THEN 0 ELSE from_ai[1]),
                   completion_rate |-> CompletionRate(Len(history)),
                   insights |-> coerced]]

\* the response of progress_endpoint; insights and from_ai are Optional
ProgressResponse(goal, history, insights, from_ai) ==
    LET heuristic == _estimate_micro_habits_offered(history)
        coerced == IF insights = None THEN <<>>
                   ELSE _coerce_insights_bullets(IvText(insights[1]))
    IN  [status |-> 200,
         data |-> [goal |-> goal,
                   total_chats |-> Len(history),
                   micro_habits_offered |->
                       Max(heuristic, IF from_ai = None THEN 0 ELSE from_ai[1]),
                   completion_rate |-> CompletionRate(Len(history)),
                   insights |-> IF coerced = <<>> THEN InsightsFallback
                                ELSE coerced]]

\* the endpoint's use of the payload call_gemini_progress_insights returned
ProgressFromPayload(goal, history, p) ==
    ProgressResponse(goal, history, Some(p.insights), MicroHabitsFromAi(p.mh))

T_id == <<"i", "d">>
T_ayo_baca == <<"a", "y", "o", " ", "b", "a", "c", "a">>
T_bullets == <<"-", " ", "g", "o", "\n", "-", " ", "r", "u", "n">>
T_just_go == <<"J", "u", "s", "t", " ", "g", "o">>
T_user == <<"u", "s", "e", "r">>

Languages ==
    {None, Some(<<"e", "n", "_", "U", "S">>), Some(T_id),
     Some(<<"E", "N", "\n", "-", "x">>)}

Histories ==
    {<<>>,
     <<Msg(T_user, T_Hi), Msg(T_model, T_just_go)>>,
     <<Msg(T_user, T_just_go), Msg(T_assistant, T_just_go),
       Msg(<<"a", "i">>, T_just_go), Msg(T_model, T_Hi)>>,
     <<Msg(T_model, T_just_go), Msg(T_assistant, T_just_go), Msg(T_model, T_just_go)>>}

InsightsValues ==
    {IvNone, IvText(<<" ">>), IvText(T_bullets), IvText(T_ayo_baca),
     IvList(<<T_go, <<"-", "r", "u", "n">>>>)}

MicroHabitValues ==
    {JsonAbsent, JsonBool(TRUE), JsonNum(-20), JsonNum(10), JsonNum(37), JsonInf(1)}

InsightsOutcomes ==
    {InsFail("timeout"), InsRaw("unparsable", IvNone, JsonAbsent),
     InsRaw("nonobject", IvNone, JsonAbsent)}
    \cup {InsRaw("object", iv, mh) : iv \in InsightsValues, mh \in MicroHabitValues}

ProgressRequest ==
    /\ pc = "idle"
    /\ \E g \in Goals, h \in Histories, l \in Languages :
         /\ op' = "progress"
         /\ current_goal' = g
         /\ chat_history' = h
         /\ language' = l
         /\ IF RequestFieldBlank(g)
            THEN /\ response' = ErrorResponse(400)
                 /\ pc' = "done"
                 /\ calls' = calls
            ELSE /\ response' = response
                 /\ pc' = "insights"
                 /\ calls' = Append(calls, Call("insights", g))
    /\ UNCHANGED <<user_message, results, payload, motivation, envVars, chatVars,
                   judgeVars, evalVars, obsVars, replyVars>>

\* the first generate_content of call_gemini_progress_insights returns
InsightsReturns ==
    /\ op = "progress" /\ pc = "insights"
    /\ \E out \in InsightsOutcomes :
         LET p == InsightsPayload(out) IN
         /\ first_out' = out
         /\ IF InsightsRaises(out)
            THEN /\ results' = Append(results, Result("insights",
                                    IF out.fail # "none" THEN out.fail ELSE "invalid", 0))
                 /\ response' = AbsorbedFailure(
                                    ProgressResponse(current_goal, chat_history, None, None))
                 /\ pc' = "done"
                 /\ UNCHANGED <<calls, payload>>
            ELSE /\ results' = Append(results, Result("insights", "none", 0))
                 /\ IF NeedsEnglishFix(language, p)
                    THEN /\ payload' = p
                         /\ calls' = Append(calls, Call("insights_fix", current_goal))
                         /\ pc' = "insights_fix"
                         /\ response' = response
                    ELSE /\ payload' = FinalInsightsPayload(language, p)
                         /\ response' = ProgressFromPayload(current_goal, chat_history,
                                                            payload')
                         /\ pc' = "done"
                         /\ calls' = calls
    /\ UNCHANGED <<op, user_message, current_goal, language, chat_history,
                   motivation, envVars, chatVars, judgeVars, evalVars, obsVars, fix_out>>

\* the corrective generate_content of call_gemini_progress_insights returns
InsightsFixReturns ==
    /\ op = "progress" /\ pc = "insights_fix"
    /\ \E out \in InsightsOutcomes :
         /\ results' = Append(results, Result("insights_fix",
                                 IF out.fail # "none" THEN out.fail
                                 ELSE IF out.shape # "object" THEN "invalid"
                                 ELSE "none", 0))
         /\ payload' = FinalInsightsPayload(language, AfterInsightsFix(payload, out))
         /\ response' = ProgressFromPayload(current_goal, chat_history, payload')
         /\ pc' = "done"
         /\ fix_out' = out
    /\ UNCHANGED <<op, user_message, current_goal, language, chat_history, calls,
                   motivation, envVars, chatVars, judgeVars, evalVars, obsVars, first_out>>

(***************************************************************************)
(* POST /progress/motivation: weekly_motivation_endpoint and               *)
(* call_gemini_weekly_motivation.                                          *)
(***************************************************************************)
\* re.sub(r"\s+", " ", text)
RECURSIVE CollapseWhitespace(_)
CollapseWhitespace(s) ==
    IF s = <<>> THEN <<>>
    ELSE IF s[1] \notin Whitespace THEN <<s[1]>> \o CollapseWhitespace(Tail(s))
    ELSE IF Len(s) >= 2 /\ s[2] \in Whitespace THEN CollapseWhitespace(Tail(s))
    ELSE <<" ">> \o CollapseWhitespace(Tail(s))

\* str.strip("\"")
StripQuotes(s) ==
    IF \A i \in 1..Len(s) : s[i] = "\"" THEN <<>>
    ELSE SubSeq(s,
                CHOOSE i \in 1..Len(s) : s[i] # "\"" /\ \A k \in 1..(i-1) : s[k] = "\"",
                CHOOSE i \in 1..Len(s) :
                    s[i] # "\"" /\ \A k \in (i+1)..Len(s) : s[k] = "\"")

\* the text of a response made a single line without surrounding quotes
OneSentence(text) == Strip(StripQuotes(Strip(CollapseWhitespace(Strip(text)))))

\* "if rewritten and not _looks_indonesian(rewritten): text = rewritten";
\* a raising rewrite call is passed over
AfterMotivationFix(text, out) ==
    IF out.fail # "none" THEN text
    ELSE LET rewritten == OneSentence(out.text) IN
         IF rewritten # <<>> /\ ~_looks_indonesian(rewritten) THEN rewritten
         ELSE text

\* the end of call_gemini_weekly_motivation
FinalMotivation(lang, text) ==
    IF text = <<>> THEN MotivationFallback
    ELSE IF IsEnglish(lang) /\ _looks_indonesian(text) THEN MotivationFallback
    ELSE text

\* the response of weekly_motivation_endpoint for what the call returned
MotivationResponse(m) ==
    [status |-> 200,
     data |-> [motivation |-> IF Strip(m) = <<>>
                              THEN Strip(MotivationEndpointFallback)
                              ELSE Strip(m)]]

MotivationTexts ==
    {<<>>, <<"\"", " ", "\"">>,
     <<"\"", "G", "o", " ", "\n", "r", "u", "n", "\"", "\n">>,
     T_ayo_baca,
     <<"A", "y", "o", ",", " ", "g", "o", " ", "g", "o", " ", "g", "o", " ", "g", "o",
       " ", "g", "o">>}

MotivationOutcomes ==
    {GwFail("timeout"), GwFail("error")} \cup {GwText(t) : t \in MotivationTexts}

MotivationRequest ==
    /\ pc = "idle"
    /\ \E g \in Goals, l \in Languages :
         /\ op' = "motivation"
         /\ current_goal' = g
         /\ language' = l
         /\ IF RequestFieldBlank(g)
            THEN /\ response' = ErrorResponse(400)
                 /\ pc' = "done"
                 /\ calls' = calls
            ELSE /\ response' = response
                 /\ pc' = "motivating"
                 /\ calls' = Append(calls, Call("motivation", g))
    /\ UNCHANGED <<user_message, results, progVars, envVars, chatVars, judgeVars, evalVars, obsVars, replyVars>>

\* the first generate_content of call_gemini_weekly_motivation returns
MotivationReturns ==
    /\ op = "motivation" /\ pc = "motivating"
    /\ \E out \in MotivationOutcomes :
         LET text == OneSentence(out.text) IN
         /\ results' = Append(results, Result("motivation", out.fail, 0))
         /\ first_out' = out
         /\ IF out.fail # "none"
            THEN /\ response' = AbsorbedFailure(
                                    MotivationResponse(MotivationEndpointFallback))
                 /\ pc' = "done"
                 /\ UNCHANGED <<calls, motivation>>
            ELSE IF IsEnglish(language) /\ _looks_indonesian(text)
            THEN /\ motivation' = text
                 /\ calls' = Append(calls, Call("motivation_fix", text))
                 /\ pc' = "motivation_fix"
                 /\ response' = response
            ELSE /\ motivation' = text
                 /\ response' = MotivationResponse(FinalMotivation(language, text))
                 /\ pc' = "done"
                 /\ calls' = calls
    /\ UNCHANGED <<op, user_message, current_goal, language, chat_history, payload,
                   envVars, chatVars, judgeVars, evalVars, obsVars, fix_out>>

\* the rewrite generate_content of call_gemini_weekly_motivation returns
MotivationFixReturns ==
    /\ op = "motivation" /\ pc = "motivation_fix"
    /\ \E out \in MotivationOutcomes :
         /\ results' = Append(results, Result("motivation_fix", out.fail, 0))
         /\ motivation' = AfterMotivationFix(motivation, out)
         /\ response' = MotivationResponse(FinalMotivation(language, motivation'))
         /\ pc' = "done"
         /\ fix_out' = out
    /\ UNCHANGED <<op, user_message, current_goal, language, chat_history, payload,
                   calls, envVars, chatVars, judgeVars, evalVars, obsVars, first_out>>

(***************************************************************************)
(* POST /persona: persona_endpoint and call_gemini_persona.                *)
(***************************************************************************)
\* for an object, its members: title, desc and avatar are Optional texts
PersonaFail(f) ==
    [fail |-> f, shape |-> "unparsable", title |-> None, desc |-> None,
     avatar |-> None, power |-> JsonAbsent]
PersonaRaw(shape, title, desc, avatar, power) ==
    [fail |-> "none", shape |-> shape, title |-> title, desc |-> desc,
     avatar |-> avatar, power |-> power]

\* str(data.get(key) or "").strip()
TextMember(v) == IF v = None THEN <<>> ELSE Strip(v[1])

UpperText(s) == [i \in 1..Len(s) |-> Upper(s[i])]

MinPower == 1
MaxPower == 100
DefaultPower == 50

PowerLevelUnclamped(v) ==
    IF v.t = "num" THEN PyRound(v.v) ELSE DefaultPower

\* a bool or a non-number counts as 50; a number is rounded and clamped
PowerLevel(v) ==
    IF v.t = "num" THEN Max(MinPower, Min(MaxPower, PyRound(v.v)))
    ELSE DefaultPower

\* call_gemini_persona raises: the gateway failed, json.loads failed, the
\* value is no dict, or round() was given an infinity or a NaN
PersonaRaises(out) ==
    \/ out.fail # "none"
    \/ out.shape # "object"
    \/ out.power.t \in {"inf", "nan"}

\* the dict call_gemini_persona returns
Persona(out) ==
    LET title == TextMember(out.title)
        desc == TextMember(out.desc)
        avatar == UpperText(TextMember(out.avatar))
    IN  [archetype_title |-> IF title = <<>> THEN DefaultArchetypeTitle ELSE title,
         description |-> IF desc = <<>> THEN DefaultDescription ELSE desc,
         avatar_id |-> IF avatar \in _ALLOWED_AVATAR_IDS THEN avatar ELSE T_PENGU,
         power_level |-> PowerLevel(out.power)]

\* PersonaData(...) of persona_endpoint
PersonaResponse(persona) ==
    [status |-> 200,
     data |-> [archetype_title |-> Strip(persona.archetype_title),
               description |-> Strip(persona.description),
               avatar_id |-> Strip(persona.avatar_id),
               power_level |-> persona.power_level]]

PersonaOutcomes ==
    {PersonaFail("timeout"), PersonaFail("unauthenticated"),
     PersonaRaw("unparsable", None, None, None, JsonAbsent),
     PersonaRaw("nonobject", None, None, None, JsonAbsent)}
    \cup {PersonaRaw("object", Some(T_Hi), Some(T_go), a, pw) :
            a \in {Some(<<" ", "l", "i", "o", "n">>), Some(T_run)},
            pw \in {JsonAbsent, JsonBool(TRUE), JsonStr, JsonNum(-30), JsonNum(5),
                    JsonNum(725), JsonNum(995), JsonNum(2000), JsonInf(1),
                    JsonNaN}}
    \cup {PersonaRaw("object", t, d, a, JsonNum(45)) :
            t \in {None, Some(T_Hi)},
            d \in {Some(<<" ">>), Some(T_go)},
            a \in {None, Some(T_run)}}

PersonaRequest ==
    /\ pc = "idle"
    /\ \E g \in Goals, h \in Histories, l \in Languages :
         /\ op' = "persona"
         /\ current_goal' = g
         /\ chat_history' = h
         /\ language' = l
         /\ IF RequestFieldBlank(g)
            THEN /\ response' = ErrorResponse(400)
                 /\ pc' = "done"
                 /\ calls' = calls
            ELSE /\ response' = response
                 /\ pc' = "persona"
                 /\ calls' = Append(calls, Call("persona", g))
    /\ UNCHANGED <<user_message, results, payload, motivation, envVars, chatVars,
                   judgeVars, evalVars, obsVars, replyVars>>

\* generate_content of call_gemini_persona returns; what call_gemini_persona
\* raises reaches "except Exception" of persona_endpoint
PersonaReturns ==
    /\ op = "persona" /\ pc = "persona"
    /\ \E out \in PersonaOutcomes :
         /\ results' = Append(results, Result("persona",
                                 IF out.fail # "none" THEN out.fail
                                 ELSE IF PersonaRaises(out) THEN "invalid"
                                 ELSE "none", 0))
         /\ response' = IF PersonaRaises(out) THEN ErrorResponse(500)
                        ELSE PersonaResponse(Persona(out))
         /\ pc' = "done"
         /\ first_out' = out
    /\ UNCHANGED <<op, user_message, current_goal, language, calls, progVars,
                   envVars, chatVars, judgeVars, evalVars, obsVars, fix_out>>

\* the request is over; its values are discarded and the next one is awaited
NextRequest ==
    /\ pc = "done"
    /\ op' = "none"
    /\ pc' = "idle"
    /\ user_message' = <<>>
    /\ current_goal' = <<>>
    /\ language' = None
    /\ calls' = <<>>
    /\ results' = <<>>
    /\ response' = NoResponse
    /\ raw_draft' = <<>>
    /\ ai_reply_retry' = <<>>
    /\ ai_reply' = <<>>
    /\ deal_label' = None
    /\ deal_made' = FALSE
    /\ empathy_score' = None
    /\ empathy_rationale' = None
    /\ retry_used' = FALSE
    /\ initial_empathy_score' = None
    /\ chat_history' = <<>>
    /\ payload' = NoPayload
    /\ motivation' = <<>>
    /\ first_out' = NoOutput
    /\ fix_out' = NoOutput
    /\ flush_result' = "none"
    /\ middleware_response' = NoResponse
    /\ UNCHANGED <<envVars, judgeVars, evalVars>>

(***************************************************************************)
(* _opik_flush_middleware: it wraps every request, and flushes the traces  *)
(* once the handler has produced its response.                             *)
(***************************************************************************)
\* "skipped": OPIK_ENABLED and OPIK_AVAILABLE is false; "no_flush": opik has
\* no callable flush; "flushed": flush_fn() returned; "raised": the import
\* or flush_fn() raised an Exception
FlushOutcomes == {"skipped", "no_flush", "flushed", "raised"}

MiddlewareResponseFailing(resp, outcome) ==
    IF outcome = "raised" THEN ErrorResponse(500) ELSE resp

\* "except Exception: pass", then "return response"
MiddlewareResponse(resp, outcome) == resp

\* call_next has returned the handler's response (an HTTPException having
\* become an error response); the flush, then the return
OpikFlush ==
    /\ pc = "done" /\ flush_result = "none"
    /\ \E outcome \in FlushOutcomes :
         /\ flush_result' = outcome
         /\ middleware_response' = MiddlewareResponse(response, outcome)
    /\ UNCHANGED <<envVars, reqVars, chatVars, progVars, judgeVars, evalVars,
                   replyVars>>

Next ==
    \/ ChatRequest
    \/ DraftReturns
    \/ JudgeReturns
    \/ RetryReturns
    \/ RejudgeReturns
    \/ ProgressRequest
    \/ InsightsReturns
    \/ InsightsFixReturns
    \/ MotivationRequest
    \/ MotivationReturns
    \/ MotivationFixReturns
    \/ PersonaRequest
    \/ PersonaReturns
    \/ NextRequest

Spec == Init /\ [][Next]_vars

\* the server when only POST /chat is requested
NextChat ==
    \/ ChatRequest
    \/ DraftReturns
    \/ JudgeReturns
    \/ RetryReturns
    \/ RejudgeReturns
    \/ NextRequest

SpecChat == Init /\ [][NextChat]_vars

\* every gateway call of a chat request returns or fails: generate_content is
\* called with a timeout, so a pending call's return is not postponed forever
SpecChatLive ==
    /\ SpecChat
    /\ WF_vars(DraftReturns)
    /\ WF_vars(JudgeReturns)
    /\ WF_vars(RetryReturns)
    /\ WF_vars(RejudgeReturns)

\* neither RETRY_ON_LOW_EMPATHY nor RETRY_EMPATHY_THRESHOLD is set
InitUnconfigured ==
    /\ Init
    /\ env_retry_flag = None
    /\ env_retry_threshold = EnvUnset

\* the server when only POST /progress and POST /progress/motivation are
\* requested
NextProgress ==
    \/ ProgressRequest
    \/ InsightsReturns
    \/ InsightsFixReturns
    \/ MotivationRequest
    \/ MotivationReturns
    \/ MotivationFixReturns
    \/ NextRequest

SpecProgress == InitUnconfigured /\ [][NextProgress]_vars

\* the server when only POST /persona is requested
NextPersona ==
    \/ PersonaRequest
    \/ PersonaReturns
    \/ NextRequest

SpecPersona == InitUnconfigured /\ [][NextPersona]_vars

(***************************************************************************)
(* Observations on the log of a request, used by the properties below.     *)
(***************************************************************************)
NumCalls(kind) == Cardinality({i \in 1..Len(calls) : calls[i].kind = kind})
Returned(kind) == \E i \in 1..Len(results) : results[i].kind = kind
ResultOf(kind) == results[CHOOSE i \in 1..Len(results) : results[i].kind = kind]
Succeeded(kind) == Returned(kind) /\ ResultOf(kind).fail = "none"
Failed(kind) == Returned(kind) /\ ResultOf(kind).fail # "none"
ChatDone == op = "chat" /\ pc = "done"
ChatOk == ChatDone /\ response.status = 200
FlagOn ==
    /\ env_retry_flag # None
    /\ LowerText(Strip(env_retry_flag[1])) \in EnabledWords
\* the configured threshold, clamped into [1,5]; 3 when not configured
ClampedThreshold ==
    LET t == IF env_retry_threshold.t = "int" THEN env_retry_threshold.v ELSE 3
    IN  IF t < 1 THEN 1 ELSE IF t > 5 THEN 5 ELSE t
OriginalMeta == _extract_deal_meta(raw_draft)
RetryMeta == _extract_deal_meta(ai_reply_retry)

\* C1: once the first judge call has succeeded with score s (and the
\* configured threshold is an integer or unset), the retry generation call
\* is made if and only if the retry flag is on and s < T, T being the
\* threshold clamped into [1,5] (3 by default); with the flag on and T = 3,
\* s = 2 retries and s = 3 or s = 4 does not.
C1_RetryIffLowScore ==
    (op = "chat" /\ Succeeded("judge") /\ env_retry_threshold.t # "bad") =>
        LET s == ResultOf("judge").score IN
        /\ (NumCalls("retry") >= 1) <=> (FlagOn /\ s < ClampedThreshold)
        /\ (FlagOn /\ ClampedThreshold = 3 /\ s = 2) => NumCalls("retry") = 1
        /\ (FlagOn /\ ClampedThreshold = 3 /\ s \in {3, 4}) => NumCalls("retry") = 0

C1_Witness ==
    /\ op = "chat" /\ Succeeded("judge") /\ ResultOf("judge").score = 2
    /\ FlagOn /\ env_retry_threshold = EnvInt(3)
    /\ NumCalls("retry") = 1

\* C2: a request makes at most one retry generation call, whatever the
\* scores, hence at most 2 generation calls and at most 2 judge calls.
C2_AtMostOneRetry ==
    /\ NumCalls("retry") <= 1
    /\ NumCalls("draft") + NumCalls("retry") <= 2
    /\ NumCalls("judge") + NumCalls("rejudge") <= 2

C2_Witness ==
    /\ ChatDone /\ Succeeded("rejudge")
    /\ env_retry_threshold.t # "bad"
    /\ ResultOf("rejudge").score < ClampedThreshold
    /\ NumCalls("retry") = 1

\* C3: when the first judge call fails, for whatever reason, the request
\* succeeds with both scores unset, no retry call, retry_used false and the
\* cleaned original reply as reply text.
C3_JudgeFailureAbsorbed ==
    (ChatDone /\ Failed("judge")) =>
        /\ response.status = 200
        /\ response.empathy_score = None
        /\ response.initial_empathy_score = None
        /\ NumCalls("retry") = 0
        /\ response.retry_used = FALSE
        /\ response.response = OriginalMeta.cleaned

C3_Witness ==
    /\ ChatDone /\ Returned("judge") /\ ResultOf("judge").fail = "invalid"
    /\ FlagOn
    /\ response.status = 200 /\ response.response = T_Hi
    /\ raw_draft # T_Hi

\* C4: when the draft generation call fails, the request fails and no judge
\* or retry call is made: 504 for a timeout or an exceeded deadline, 401 for
\* an authentication failure, 500 for anything else, an empty reply included.
C4_DraftFailureFatal ==
    (op = "chat" /\ Failed("draft")) =>
        LET f == ResultOf("draft").fail IN
        /\ pc = "done"
        /\ NumCalls("judge") + NumCalls("rejudge") + NumCalls("retry") = 0
        /\ f \in {"timeout", "deadline"} => response = ErrorResponse(504)
        /\ f = "unauthenticated" => response = ErrorResponse(401)
        /\ f \notin {"timeout", "deadline", "unauthenticated"}
              => response = ErrorResponse(500)

C4_Witness ==
    /\ op = "chat" /\ Returned("draft") /\ ResultOf("draft").fail = "deadline"
    /\ response = ErrorResponse(504)

\* C5: when the retry generation call or the re-judge call fails, the request
\* succeeds with the cleaned original reply, empathy_score equal to
\* initial_empathy_score (the first judge's score), retry_used false and the
\* deal label / deal flag of the original reply.
C5_RetryFailureAbsorbed ==
    (ChatDone /\ (Failed("retry") \/ Failed("rejudge"))) =>
        /\ response.status = 200
        /\ response.response = OriginalMeta.cleaned
        /\ response.empathy_score = Some(ResultOf("judge").score)
        /\ response.initial_empathy_score = response.empathy_score
        /\ response.retry_used = FALSE
        /\ response.deal_label = OriginalMeta.label
        /\ response.deal_made = (OriginalMeta.label # None)

C5_Witness ==
    /\ ChatDone /\ Failed("rejudge")
    /\ OriginalMeta.label = None
    /\ RetryMeta.label # None
    /\ RetryMeta.cleaned # OriginalMeta.cleaned
    /\ response.status = 200 /\ response.deal_made = FALSE

\* C6: in a successful response with retry_used true, empathy_score is the
\* score the second judge call returned and initial_empathy_score the score
\* the first judge call returned.
C6_ScoresOfRetriedResponse ==
    (ChatOk /\ response.retry_used) =>
        /\ Succeeded("judge") /\ Succeeded("rejudge")
        /\ response.empathy_score = Some(ResultOf("rejudge").score)
        /\ response.initial_empathy_score = Some(ResultOf("judge").score)

C6_Witness ==
    /\ ChatOk /\ response.retry_used
    /\ response.initial_empathy_score = Some(2)
    /\ response.empathy_score = Some(4)

\* C7: with the retry flag off, a response never has retry_used true, and a
\* request that reaches the gateway makes exactly one generation call and at
\* most one judge call.
C7_FlagOffNoRetry ==
    ~FlagOn =>
        /\ ChatOk => response.retry_used = FALSE
        /\ (ChatDone /\ response.status # 400)
              => NumCalls("draft") + NumCalls("retry") = 1
        /\ NumCalls("draft") + NumCalls("retry") <= 1
        /\ NumCalls("judge") + NumCalls("rejudge") <= 1

C7_Witness ==
    /\ env_retry_flag = None /\ env_retry_threshold = EnvInt(5)
    /\ ChatOk /\ response.empathy_score = Some(1)
    /\ NumCalls("draft") = 1 /\ NumCalls("judge") = 1

\* C8: a chat request whose user_message or goal is blank after trimming,
\* and a progress, weekly-motivation or persona request whose goal is blank
\* after trimming, is answered 400 at once and no gateway call (generation,
\* judge, insights, motivation or persona) is made for it.
C8_BlankRejected ==
    (/\ op \in {"chat", "progress", "motivation", "persona"}
     /\ (IsBlank(current_goal) \/ (op = "chat" /\ IsBlank(user_message)))) =>
        /\ pc = "done"
        /\ response = ErrorResponse(400)
        /\ calls = <<>>
        /\ results = <<>>

C8_Witness ==
    /\ op = "chat"
    /\ user_message = <<" ", "\n">>
    /\ current_goal = T_run
    /\ response = ErrorResponse(400)
    /\ calls = <<>>

\* C10: the deal label of a successful response is, with retry_used true, the
\* label extracted from the retry reply when there is one and the label of
\* the original reply otherwise; with retry_used false it is the label of
\* the original reply.
C10_DealLabelOfFinalReply ==
    ChatOk =>
        response.deal_label =
            IF response.retry_used
            THEN (IF RetryMeta.label # None THEN RetryMeta.label
                  ELSE OriginalMeta.label)
            ELSE OriginalMeta.label

C10_Witness ==
    /\ ChatOk /\ response.retry_used
    /\ OriginalMeta.label = Some(T_go)
    /\ RetryMeta.label = Some(T_run)
    /\ response.deal_label = Some(T_run)

ProgressDone == op = "progress" /\ pc = "done" /\ response.status # 400
MotivationDone == op = "motivation" /\ pc = "done" /\ response.status # 400
RequestedEnglish == _normalize_language(language) = T_en

\* the insights text call_gemini_progress_insights reads from an output
InsightsTextOf(out) == Strip(_coerce_insights_bullets(out.insights))
InsightsParsed(out) == out.fail = "none" /\ out.shape = "object"
\* the first insights output trips the detector on an English request
InsightsTripped ==
    /\ RequestedEnglish
    /\ InsightsParsed(first_out)
    /\ _looks_indonesian(InsightsTextOf(first_out))
\* the corrected insights parse, are not empty and pass the detector
InsightsCorrected ==
    /\ InsightsParsed(fix_out)
    /\ InsightsTextOf(fix_out) # <<>>
    /\ ~_looks_indonesian(InsightsTextOf(fix_out))

\* the sentence call_gemini_weekly_motivation reads from an output
SentenceOf(out) == OneSentence(out.text)
MotivationTripped ==
    /\ RequestedEnglish
    /\ first_out.fail = "none"
    /\ _looks_indonesian(SentenceOf(first_out))
MotivationCorrected ==
    /\ fix_out.fail = "none"
    /\ SentenceOf(fix_out) # <<>>
    /\ ~_looks_indonesian(SentenceOf(fix_out))

\* C13: in progress insights and in weekly motivation, when the normalized
\* language is "en" and the first output trips the Indonesian detector,
\* exactly one corrective re-prompt is issued (never a second), and the text
\* returned never trips the detector: it is the corrected text when that
\* parses, is not empty and passes the detector, and the fixed fallback text
\* otherwise, also when the re-prompt call fails.
C13_OneLanguageCorrection ==
    /\ NumCalls("insights_fix") <= 1 /\ NumCalls("motivation_fix") <= 1
    /\ (ProgressDone /\ InsightsTripped) =>
          /\ NumCalls("insights_fix") = 1
          /\ ~_looks_indonesian(payload.insights)
          /\ ~_looks_indonesian(response.data.insights)
          /\ payload.insights =
                IF InsightsCorrected
                THEN _coerce_insights_bullets(fix_out.insights)
                ELSE InsightsFallback
    /\ (MotivationDone /\ MotivationTripped) =>
          /\ NumCalls("motivation_fix") = 1
          /\ ~_looks_indonesian(response.data.motivation)
          /\ response.data.motivation =
                IF MotivationCorrected THEN SentenceOf(fix_out)
                ELSE MotivationFallback

C13_Witness ==
    /\ ProgressDone /\ InsightsTripped
    /\ language = Some(<<"e", "n", "_", "U", "S">>)
    /\ InsightsParsed(fix_out)
    /\ fix_out.insights = IvText(T_ayo_baca)
    /\ payload.insights = InsightsFallback

ProgressOk == ProgressDone /\ response.status = 200
HeuristicCount == _estimate_micro_habits_offered(chat_history)

\* C14: in a successful progress response micro_habits_offered is
\* max(heuristic count, AI count), the AI count being 0 when the AI call
\* fails or reports no numeric count: never below the heuristic count, equal
\* to it when the AI fails, and 3 when the heuristic counts 3 and the AI
\* reports 1.
C14_MicroHabitsMax ==
    ProgressOk =>
        LET offered == response.data.micro_habits_offered IN
        /\ offered >= HeuristicCount
        /\ ~InsightsParsed(first_out) => offered = HeuristicCount
        /\ (InsightsParsed(first_out) /\ payload.mh.t \in {"absent", "null", "bool", "str"})
              => offered = HeuristicCount
        /\ (InsightsParsed(first_out) /\ payload.mh.t = "num" /\ payload.mh.v % 10 = 0)
              => offered = Max(HeuristicCount, payload.mh.v \div 10)
        /\ (HeuristicCount = 3 /\ InsightsParsed(first_out) /\ payload.mh = JsonNum(10))
              => offered = 3

\* a request with valid input has been answered
ValidRequestDone == pc = "done" /\ response.status # 400

C16_MotivationAlwaysAnswers ==
    (op = "motivation" /\ pc = "done" /\ ~IsBlank(current_goal)) =>
        /\ response.status = 200
        /\ ~IsBlank(response.data.motivation)

C16_Witness ==
    /\ MotivationDone /\ MotivationTripped
    /\ fix_out.fail = "timeout"
    /\ response.status = 200
    /\ response.data.motivation = MotivationFallback

\* C17: for a progress request with a non-blank goal, a failure of the AI
\* insights call (gateway failure, unparsable or non-object output) never
\* fails the request: the response is a success whose micro_habits_offered
\* is the heuristic count and whose insights is the non-empty fixed fallback.
C17_InsightsFailureAbsorbed ==
    (op = "progress" /\ pc = "done" /\ ~IsBlank(current_goal) /\ Failed("insights")) =>
        /\ response.status = 200
        /\ response.data.micro_habits_offered = HeuristicCount
        /\ response.data.insights = InsightsFallback
        /\ ~IsBlank(response.data.insights)

C17_Witness ==
    /\ ProgressDone
    /\ first_out.fail = "none" /\ first_out.shape = "nonobject"
    /\ HeuristicCount = 3
    /\ response.status = 200 /\ response.data.micro_habits_offered = 3

\* s holds an opening tag and, after it, a closing tag (letters of any case)
ContainsDealSpan(s) ==
    \E i \in 1..Len(s), j \in 1..Len(s) :
        /\ i + Len(TagOpen) <= j
        /\ j + Len(TagClose) - 1 <= Len(s)
        /\ LowerText(SubSeq(s, i, i + Len(TagOpen) - 1)) = TagOpenLower
        /\ LowerText(SubSeq(s, j, j + Len(TagClose) - 1)) = TagCloseLower

\* C11: the reply text of a successful chat response holds no
\* <DEAL>...</DEAL> span, in letters of any case, whether it comes from the
\* draft or from the retry, whatever the model's raw output was.
C11_ReplyHasNoDealSpan ==
    ChatOk => ~ContainsDealSpan(response.response)

\* the call of this kind that chat_endpoint made
CallOf(kind) == calls[CHOOSE i \in 1..Len(calls) : calls[i].kind = kind]

\* C22: in a successful chat response whose empathy_score is set, the score
\* comes from a judge call whose ai_text argument is exactly the returned
\* reply text: the first judge call when no retry was used, the re-judge of
\* the retried reply otherwise.
C22_ScoreOfReturnedText ==
    (ChatOk /\ response.empathy_score # None) =>
        CallOf(IF response.retry_used THEN "rejudge" ELSE "judge").arg
            = response.response

CallOrder == <<"draft", "judge", "retry", "rejudge">>

\* C23: within one chat request the calls are made in the order draft, judge,
\* retry, re-judge, the sequence of calls being a prefix of that order; a
\* call is made only after the one before it returned, so at most one is
\* in flight: the judge call after the draft returned a non-empty reply, the
\* retry after the first judge returned a score, the re-judge after the
\* retry returned a non-empty reply.
C23_CallsInOrder ==
    op = "chat" =>
        /\ Len(calls) <= Len(CallOrder)
        /\ \A i \in 1..Len(calls) : calls[i].kind = CallOrder[i]
        /\ Len(results) \in {Len(calls) - 1, Len(calls)}
        /\ \A i \in 1..Len(results) : results[i].kind = calls[i].kind
        /\ \A i \in 2..Len(calls) : results[i - 1].fail = "none"
        /\ Len(calls) >= 2 => raw_draft # <<>>
        /\ Len(calls) >= 3 => results[2].score \in 1..5
        /\ Len(calls) >= 4 => ai_reply_retry # <<>>

C23_Witness ==
    /\ ChatOk
    /\ Len(calls) = 4 /\ Len(results) = 4
    /\ response.retry_used

\* C24: in a successful chat response retry_used is true exactly when the
\* retry generation call and the re-judge call both succeeded, and then the
\* reply text is the cleaned retry reply; otherwise it is the cleaned
\* original reply, a retry reply whose re-judge failed being discarded.
C24_RetryUsedIffRetryReturned ==
    ChatOk =>
        /\ response.retry_used <=> (Succeeded("retry") /\ Succeeded("rejudge"))
        /\ response.retry_used => response.response = RetryMeta.cleaned
        /\ ~response.retry_used => response.response = OriginalMeta.cleaned

C24_Witness ==
    /\ ChatOk
    /\ Succeeded("retry") /\ Failed("rejudge")
    /\ RetryMeta.cleaned # OriginalMeta.cleaned
    /\ ~response.retry_used
    /\ response.response = OriginalMeta.cleaned

\* C25: in a successful chat response empathy_score is unset exactly when
\* initial_empathy_score is unset; when retry_used is false the two are
\* equal; and each of them, when set, is one of 1, 2, 3, 4, 5.
C25_ScoresSetTogether ==
    ChatOk =>
        /\ (response.empathy_score = None) <=> (response.initial_empathy_score = None)
        /\ ~response.retry_used
              => response.empathy_score = response.initial_empathy_score
        /\ response.empathy_score # None
              => response.empathy_score[1] \in 1..5
        /\ response.initial_empathy_score # None
              => response.initial_empathy_score[1] \in 1..5

C25_Witness ==
    /\ ChatOk
    /\ Failed("retry")
    /\ ~response.retry_used
    /\ response.empathy_score = Some(1)
    /\ response.initial_empathy_score = Some(1)
    /\ \E i \in 1..Len(results) : results[i].kind = "judge" /\ results[i].score = 1

\* C31: in a successful chat response deal_made is true exactly when
\* deal_label is set, to a non-empty text, on every path: no retry, a retry
\* with a label, a retry without one, an absorbed failure.
C31_DealMadeIffLabel ==
    ChatOk =>
        (response.deal_made
            <=> (response.deal_label # None /\ response.deal_label[1] # <<>>))

C31_Witness ==
    /\ ChatOk /\ response.retry_used
    /\ OriginalMeta.label = None
    /\ RetryMeta.label = Some(T_run)
    /\ response.deal_made
    /\ response.deal_label = Some(T_run)

\* C32: provided every gateway call returns or fails, a chat request that was
\* started reaches a terminal outcome, a success response or an error
\* response; it makes at most 4 gateway calls; and no step leads from
\* re-judging back to retrying.
C32_ChatTerminates ==
    /\ (op = "chat" /\ pc # "done") ~> (ChatDone /\ response.status # 0)
    /\ [](op = "chat" => Len(calls) <= 4)
    /\ [][pc = "rejudging" => pc' # "retrying"]_vars

C32_Witness ==
    /\ ChatOk
    /\ Len(calls) = 4 /\ Len(results) = 4
    /\ response.retry_used
    /\ env_retry_threshold.t # "bad"
    /\ response.empathy_score[1] < ClampedThreshold

(***************************************************************************)
(* _extract_deal_meta on its own: it is handed every text made of at most  *)
(* MaxDealPieces pieces, and the example of its documentation.             *)
(***************************************************************************)
T_great_job_tagged ==
    <<"G", "r", "e", "a", "t", " ", "j", "o", "b", "!", " ", "<", "D", "E",
    "A", "L", ">", "d", "o", " ", "5", " ", "p", "u", "s", "h", "u", "p",
    "s", "<", "/", "D", "E", "A", "L", ">">>
T_great_job ==
    <<"G", "r", "e", "a", "t", " ", "j", "o", "b", "!">>
T_do_5_pushups ==
    <<"d", "o", " ", "5", " ", "p", "u", "s", "h", "u", "p", "s">>

DealTag(inner) == TagOpen \o inner \o TagClose

DealTagLower(inner) == TagOpenLower \o inner \o TagCloseLower

DealPieces ==
    {<<"x">>, <<" ">>, TagOpen, TagClose, <<"<", "D", "E">>,
     DealTag(<<>>), DealTag(<<" ">>), DealTagLower(T_go),
     DealTag(<<" ">> \o T_run \o <<"\n">>)}

RECURSIVE TextsOfPieces(_, _)
TextsOfPieces(pieces, n) ==
    IF n = 0 THEN {<<>>}
    ELSE LET shorter == TextsOfPieces(pieces, n - 1)
         IN  shorter \cup {t \o p : t \in shorter, p \in pieces}

DealTexts == TextsOfPieces(DealPieces, MaxDealPieces) \cup {T_great_job_tagged}

InitDeal ==
    /\ env_retry_flag = None
    /\ env_retry_threshold = EnvUnset
    /\ IdleRequest
    /\ judge_in = JgFail("error")
    /\ judge_out = JudgeIdle
    /\ fn_arg \in DealTexts
    /\ fn_ret = None

DealApply ==
    /\ fn_ret = None
    /\ fn_ret' = Some(_extract_deal_meta(fn_arg))
    /\ UNCHANGED <<fn_arg, envVars, reqVars, chatVars, progVars, judgeVars,
                   replyVars, obsVars>>

\* the function applied to the text it returned; fn_ret holds both pairs
DealReapply ==
    /\ Len(fn_ret) = 1
    /\ fn_ret' = Append(fn_ret, _extract_deal_meta(fn_ret[1].cleaned))
    /\ UNCHANGED <<fn_arg, envVars, reqVars, chatVars, progVars, judgeVars,
                   replyVars, obsVars>>

NextDeal ==
    \/ DealApply
    \/ DealReapply

SpecDeal == InitDeal /\ [][NextDeal]_vars

OpenTagAt(s, i) ==
    /\ i + Len(TagOpen) - 1 <= Len(s)
    /\ LowerText(SubSeq(s, i, i + Len(TagOpen) - 1)) = TagOpenLower
CloseTagAt(s, j) ==
    /\ j + Len(TagClose) - 1 <= Len(s)
    /\ LowerText(SubSeq(s, j, j + Len(TagClose) - 1)) = TagCloseLower
\* an opening tag at i is closed by the nearest closing tag after it, at j
TagSpan(s, i, j) ==
    /\ OpenTagAt(s, i)
    /\ CloseTagAt(s, j)
    /\ i + Len(TagOpen) <= j
    /\ \A m \in (i + Len(TagOpen))..(j - 1) : ~CloseTagAt(s, m)
\* the leftmost tag of s spans i..j
FirstTagSpan(s, i, j) ==
    /\ TagSpan(s, i, j)
    /\ \A a \in 1..(i - 1), b \in 1..Len(s) : ~TagSpan(s, a, b)

\* C12: for a text holding deal tags, _extract_deal_meta returns as label
\* the trimmed inner content of the leftmost tag only, and no label when
\* that content is blank, whatever later tags hold; and
\* "Great job! <DEAL>do 5 pushups</DEAL>" gives ("Great job!", "do 5 pushups").
C12_LabelOfFirstTag ==
    fn_ret # None =>
        /\ \A i \in 1..Len(fn_arg), j \in 1..Len(fn_arg) :
             FirstTagSpan(fn_arg, i, j) =>
                LET inner == SubSeq(fn_arg, i + Len(TagOpen), j - 1) IN
                fn_ret[1].label = IF IsBlank(inner) THEN None ELSE Some(Strip(inner))
        /\ fn_arg = T_great_job_tagged =>
             fn_ret[1] = [cleaned |-> T_great_job, label |-> Some(T_do_5_pushups)]

C12_Witness ==
    /\ fn_arg = DealTag(<<" ">>) \o <<"x">> \o DealTagLower(T_go)
    /\ fn_ret # None
    /\ fn_ret[1].label = None

\* C21: for a text x that holds no deal tag, _extract_deal_meta(x) is the
\* trimmed x with no label, and _extract_deal_meta applied to the returned
\* text gives the same pair.
C21_NoTagIdempotent ==
    (fn_ret # None /\ ~ContainsDealSpan(fn_arg)) =>
        /\ fn_ret[1] = [cleaned |-> Strip(fn_arg), label |-> None]
        /\ Len(fn_ret) = 2 => fn_ret[2] = fn_ret[1]

C21_Witness ==
    /\ fn_arg = <<" ">> \o TagOpen \o <<"x">>
    /\ Len(fn_ret) = 2
    /\ fn_ret[2] = [cleaned |-> TagOpen \o <<"x">>, label |-> None]

(***************************************************************************)
(* _coerce_insights_bullets on its own, applied to a value and then to its *)
(* own result, as call_gemini_progress_insights and progress_endpoint do.  *)
(***************************************************************************)
BulletPieces ==
    {<<"a">>, <<" ">>, <<"\n">>, <<"-">>, <<"-", " ">>, <<BulletChar, " ">>,
     <<"[", "\"">>, <<"\"", "]">>, <<"\"", ",", " ", "\"">>, <<"\\", "n">>}

BulletItemTexts ==
    {<<>>, <<"a">>, <<"b">>, <<"-">>, <<" ", "-", " ", "b">>, <<"a", "\n", "b">>}

CoerceInputs ==
    {IvNone}
    \cup {IvText(t) : t \in TextsOfPieces(BulletPieces, MaxBulletPieces)}
    \cup {IvText(<<"-", " ", "x", "\n", "-", " ", "y">>), IvList(<<>>)}
    \cup {IvList(<<i>>) : i \in BulletItemTexts}
    \cup {IvList(<<i, j>>) : i \in BulletItemTexts, j \in BulletItemTexts}

InitCoerce ==
    /\ env_retry_flag = None
    /\ env_retry_threshold = EnvUnset
    /\ IdleRequest
    /\ judge_in = JgFail("error")
    /\ judge_out = JudgeIdle
    /\ fn_arg \in CoerceInputs
    /\ fn_ret = <<>>

\* fn_ret holds the result of the first application, then of the second too
CoerceApply ==
    /\ Len(fn_ret) < 2
    /\ fn_ret' = Append(fn_ret,
                        _coerce_insights_bullets(IF fn_ret = <<>> THEN fn_arg
                                                 ELSE IvText(fn_ret[1])))
    /\ UNCHANGED <<fn_arg, envVars, reqVars, chatVars, progVars, judgeVars,
                   replyVars, obsVars>>

SpecCoerce == InitCoerce /\ [][CoerceApply]_vars

\* C19: _coerce_insights_bullets is idempotent: for a list of strings, a
\* JSON-array-shaped string or free text v, coerce(coerce(v)) = coerce(v);
\* coerce(["a","b"]) = "- a\n- b", coerce("") = "" and
\* coerce("- x\n- y") = "- x\n- y".
C19_CoerceIdempotent ==
    /\ Len(fn_ret) = 2 => fn_ret[2] = fn_ret[1]
    /\ (Len(fn_ret) >= 1 /\ fn_arg = IvList(<<<<"a">>, <<"b">>>>))
          => fn_ret[1] = <<"-", " ", "a", "\n", "-", " ", "b">>
    /\ (Len(fn_ret) >= 1 /\ fn_arg = IvText(<<>>)) => fn_ret[1] = <<>>
    /\ (Len(fn_ret) >= 1 /\ fn_arg = IvText(<<"-", " ", "x", "\n", "-", " ", "y">>))
          => fn_ret[1] = <<"-", " ", "x", "\n", "-", " ", "y">>

\* C29: for every input value the result of _coerce_insights_bullets is the
\* empty text or a text whose every line starts with "- ", for lists whose
\* items hold line breaks or bullet markers as well as for free text.
C29_EveryLineBulleted ==
    \A k \in 1..Len(fn_ret) :
        \/ fn_ret[k] = <<>>
        \/ \A i \in 1..Len(SplitLines(fn_ret[k])) :
              LET line == SplitLines(fn_ret[k])[i] IN
              Len(line) >= 2 /\ SubSeq(line, 1, 2) = <<"-", " ">>

(***************************************************************************)
(* completion_rate of progress_endpoint on its own: the endpoint's response *)
(* is built for two histories, the first no longer than the second.        *)
(***************************************************************************)
HistoryOf(n, role, text) == [i \in 1..n |-> Msg(role, text)]

RateInputs ==
    {<<HistoryOf(m, T_user, T_Hi), HistoryOf(n, role, T_just_go)>> :
        m \in 0..MaxChats, n \in 0..MaxChats, role \in {T_user, T_model}}

InitRate ==
    /\ env_retry_flag = None
    /\ env_retry_threshold = EnvUnset
    /\ IdleRequest
    /\ judge_in = JgFail("error")
    /\ judge_out = JudgeIdle
    /\ fn_arg \in {p \in RateInputs : Len(p[1]) <= Len(p[2])}
    /\ fn_ret = None

RateApply ==
    /\ fn_ret = None
    /\ Len(fn_arg) = 2
    /\ fn_ret' = Some(<<ProgressResponse(T_run, fn_arg[1], None, None).data.completion_rate,
                        ProgressResponse(T_go, fn_arg[2], None, None).data.completion_rate>>)
    /\ UNCHANGED <<fn_arg, envVars, reqVars, chatVars, progVars, judgeVars,
                   replyVars, obsVars>>

SpecRate == InitRate /\ [][RateApply]_vars

\* C18: completion_rate depends only on total_chats, the length of the
\* history; it is min(total_chats, 10) * 10, monotonic non-decreasing in
\* total_chats, within [0,100], and 100 from total_chats = 10 on
\* (0 -> 0, 5 -> 50, 10 -> 100, 20 -> 100).
C18_CompletionRate ==
    fn_ret # None =>
        LET m == Len(fn_arg[1])
            n == Len(fn_arg[2])
            rate_m == fn_ret[1][1]
            rate_n == fn_ret[1][2]
        IN  /\ rate_n = (IF n < 10 THEN n * 10 ELSE 100)
            /\ m = n => rate_m = rate_n
            /\ rate_m <= rate_n
            /\ rate_n \in 0..100
            /\ n >= 10 => rate_n = 100
            /\ n = 0 => rate_n = 0
            /\ n = 5 => rate_n = 50
            /\ n = 10 => rate_n = 100
            /\ n = 20 => rate_n = 100

C18_Witness ==
    /\ fn_ret # None
    /\ Len(fn_arg) = 2
    /\ Len(fn_arg[1]) = 5 /\ Len(fn_arg[2]) = 20
    /\ fn_ret[1] = <<50, 100>>

(***************************************************************************)
(* call_gemini_empathy_judge on its own: every outcome of the gateway call *)
(* is handed to it once.                                                   *)
(***************************************************************************)
JudgeOutcomes ==
    {JgFail(f) : f \in GatewayFailures} \cup {JgText(r) : r \in JudgeRaws}

InitJudge ==
    /\ env_retry_flag = None
    /\ env_retry_threshold = EnvUnset
    /\ IdleRequest
    /\ judge_in \in JudgeOutcomes
    /\ judge_out = JudgeIdle
    /\ fn_arg = <<>>
    /\ fn_ret = None

JudgeApply ==
    /\ judge_out = JudgeIdle
    /\ judge_out' = JudgeCall(judge_in)
    /\ UNCHANGED <<judge_in, envVars, reqVars, chatVars, progVars, evalVars, obsVars,
                   replyVars, obsVars>>

NextJudge == JudgeApply

SpecJudge == InitJudge /\ [][NextJudge]_vars

JudgeReturned == judge_out # JudgeIdle
JudgedObject == judge_in.fail = "none" /\ judge_in.raw.shape = "object"
Abs(n) == IF n < 0 THEN -n ELSE n
\* k is n/10 rounded to an integer (either way on a tie), clamped into [1,5]
RoundedAndClamped(tenths, score) ==
    \E k \in (-MaxRawEmpathy - 1)..(MaxRawEmpathy + 1) :
        /\ Abs(10 * k - tenths) <= 5
        /\ score = (IF k < 1 THEN 1 ELSE IF k > 5 THEN 5 ELSE k)

\* C9: call_gemini_empathy_judge either fails or returns a score in 1..5; a
\* boolean empathy field gives 5 (true) or 1 (false); a numeric field is
\* rounded to an integer and clamped into [1,5]; an absent or non-numeric,
\* non-boolean field makes the judge fail.
C9_JudgeCoercion ==
    JudgeReturned =>
        /\ judge_out.ok => judge_out.empathy \in 1..5
        /\ JudgedObject =>
             LET e == judge_in.raw.empathy IN
             /\ e.t = "bool" =>
                   judge_out.ok /\ judge_out.empathy = (IF e.v = 1 THEN 5 ELSE 1)
             /\ e.t = "num" =>
                   judge_out.ok /\ RoundedAndClamped(e.v, judge_out.empathy)
             /\ e.t = "inf" =>
                   judge_out.ok /\ judge_out.empathy = (IF e.v > 0 THEN 5 ELSE 1)
             /\ e.t \in {"absent", "null", "str"} => ~judge_out.ok

\* what the judge does guarantee: the statement of C9 with the numeric case
\* restricted to the numbers float() and round() accept
JudgeCoercionOfFiniteNumbers ==
    JudgeReturned =>
        /\ judge_out.ok => judge_out.empathy \in 1..5
        /\ JudgedObject =>
             LET e == judge_in.raw.empathy IN
             /\ e.t = "bool" =>
                   judge_out.ok /\ judge_out.empathy = (IF e.v = 1 THEN 5 ELSE 1)
             /\ e.t = "num" =>
                   judge_out.ok /\ RoundedAndClamped(e.v, judge_out.empathy)
             /\ e.t \in {"inf", "nan", "absent", "null", "str"} => ~judge_out.ok
        /\ ~JudgedObject => ~judge_out.ok

(***************************************************************************)
(* The transcripts built from the chat history, and the micro-habit        *)
(* heuristic, on their own.                                                *)
(***************************************************************************)
T_human == <<"h", "u", "m", "a", "n">>
T_ai == <<"a", "i">>
T_bot == <<"b", "o", "t">>
T_USER == <<"U", "S", "E", "R">>
T_FLEXIFIT == <<"F", "L", "E", "X", "I", "F", "I", "T">>

LastItemsAll(items, n) == items

\* items[-n:]
LastItems(items, n) ==
    IF Len(items) <= n THEN items
    ELSE SubSeq(items, Len(items) - n + 1, Len(items))

\* the speaker of a role, None for a role that is not recognised
Speaker(role) ==
    LET r == LowerText(Strip(role)) IN
    IF r \in {T_model, T_assistant, T_ai, T_bot} THEN Some(T_FLEXIFIT)
    ELSE IF r \in {T_user, T_human} THEN Some(T_USER)
    ELSE None

\* the list "lines" of _history_to_transcript
RECURSIVE TranscriptLines(_)
TranscriptLines(items) ==
    IF items = <<>> THEN <<>>
    ELSE LET text == Strip(Head(items).text)
             speaker == Speaker(Head(items).role)
         IN  (IF text = <<>> \/ speaker = None THEN <<>>
              ELSE <<speaker[1] \o <<":", " ">> \o text>>)
             \o TranscriptLines(Tail(items))

\* of call_gemini_negotiator and, word for word, call_gemini_negotiator_retry
_history_to_transcript(items) == TranscriptLines(LastItems(items, 12))

\* [f"{m.role.upper()}: {m.text}" for m in history[-20:]]
RoleLines(items) ==
    [i \in 1..Len(items) |-> UpperText(items[i].role) \o <<":", " ">> \o items[i].text]

\* the transcript lines of call_gemini_progress_insights
InsightsTranscript(history) == RoleLines(LastItems(history, 20))

\* the transcript lines of call_gemini_persona
PersonaTranscript(chat_history_) == RoleLines(LastItems(chat_history_, 20))

HistoryFunctions == {"negotiate", "retry", "insights", "persona", "estimate"}

MixedRoles ==
    {T_user, <<" ", "H", "u", "m", "a", "n", "\n">>, <<"M", "O", "D", "E", "L">>,
     T_ai, <<"B", "o", "t">>, T_assistant, <<"s", "y", "s", "t", "e", "m">>, <<>>}

MixedTexts == {T_Hi, <<" ">>, <<" ", "J", "u", "s", "t", "\n", "g", "o", " ">>}

MixedMessages == {Msg(r, t) : r \in MixedRoles, t \in MixedTexts}

RECURSIVE HistoriesUpTo(_)
HistoriesUpTo(n) ==
    IF n = 0 THEN {<<>>}
    ELSE LET shorter == HistoriesUpTo(n - 1)
         IN  shorter \cup {Append(h, m) : h \in shorter, m \in MixedMessages}

DigitChars == <<"0", "1", "2", "3", "4", "5", "6", "7", "8", "9">>
NumberedText(i) == <<"m", DigitChars[(i \div 10) + 1], DigitChars[(i % 10) + 1]>>

\* n numbered messages, users and the model taking turns; message blank has
\* a blank text, message odd a role that is not recognised, and with
\* twoLines the last message has a text of two lines
NumberedHistory(n, blank, odd, twoLines) ==
    [i \in 1..n |->
        Msg(IF i = odd THEN <<"s", "y", "s", "t", "e", "m">>
            ELSE IF i % 2 = 1 THEN T_user ELSE T_model,
            IF i = blank THEN <<" ", "\n">>
            ELSE IF i = n /\ twoLines THEN NumberedText(i) \o <<"\n">> \o T_go
            ELSE NumberedText(i))]

NumberedHistories ==
    {NumberedHistory(n[1], n[2], n[3], two) :
        n \in {t \in (0..MaxHistory) \X (0..MaxHistory) \X (0..MaxHistory) :
                  t[2] <= t[1] /\ t[3] <= t[1]},
        two \in BOOLEAN}

InitHistory ==
    /\ env_retry_flag = None
    /\ env_retry_threshold = EnvUnset
    /\ IdleRequest
    /\ judge_in = JgFail("error")
    /\ judge_out = JudgeIdle
    /\ fn_arg \in {[fn |-> f, history |-> h] :
                     f \in HistoryFunctions,
                     h \in HistoriesUpTo(MaxMixedHistory) \cup NumberedHistories}
    /\ fn_ret = None

\* lines is the list the prompt's transcript is joined from
HistoryApply ==
    /\ fn_ret = None
    /\ LET h == fn_arg.history
           lines == CASE fn_arg.fn \in {"negotiate", "retry"} -> _history_to_transcript(h)
                      [] fn_arg.fn = "insights" -> InsightsTranscript(h)
                      [] fn_arg.fn = "persona" -> PersonaTranscript(h)
                      [] OTHER -> <<>>
       IN  fn_ret' = Some([lines |-> lines,
                           text |-> JoinLines(lines),
                           count |-> IF fn_arg.fn = "estimate"
                                     THEN _estimate_micro_habits_offered(h) ELSE 0])
    /\ UNCHANGED <<fn_arg, envVars, reqVars, chatVars, progVars, judgeVars,
                   replyVars, obsVars>>

SpecHistory == InitHistory /\ [][HistoryApply]_vars

HistoryDone(fns) == fn_ret # None /\ fn_arg.fn \in fns

\* user/human or model/assistant/ai/bot, in any case, after trimming
RecognisedRole(role) ==
    LowerText(Strip(role)) \in {T_user, T_human, T_model, T_assistant, T_ai, T_bot}

\* C26: in every transcript built from the chat history for a model call
\* (negotiate, retry, progress insights, persona) a message whose role is not
\* user/human or model/assistant/ai/bot is omitted: the transcript has no
\* more entries than the history has messages of a recognised role.
C26_UnknownRolesOmitted ==
    HistoryDone({"negotiate", "retry", "insights", "persona"}) =>
        Len(fn_ret[1].lines)
            <= Cardinality({i \in 1..Len(fn_arg.history) :
                              RecognisedRole(fn_arg.history[i].role)})

\* assistant-authored: role model, assistant, ai or bot in any letter case
AssistantAuthored(msg) ==
    LowerText(msg.role) \in {T_model, T_assistant, T_ai, T_bot}

\* C27: _estimate_micro_habits_offered returns the number of history
\* messages that are assistant-authored (role model, assistant, ai or bot in
\* any letter case) and hold one of the fixed patterns; user messages are
\* never counted and the result is between 0 and the number of
\* assistant-authored messages.
C27_CountsAssistantMessages ==
    HistoryDone({"estimate"}) =>
        LET h == fn_arg.history
            authored == {i \in 1..Len(h) : AssistantAuthored(h[i])}
        IN  /\ fn_ret[1].count =
                 Cardinality({i \in authored :
                     \E pat \in MicroHabitPatterns :
                         PatternFound(LowerText(h[i].text), pat)})
            /\ fn_ret[1].count \in 0..Cardinality(authored)

\* the messages of the last 12 entries of h that the transcript keeps
KeptOfLastTwelve(h) ==
    {i \in 1..Len(h) : /\ i > Len(h) - 12
                       /\ RecognisedRole(h[i].role)
                       /\ ~IsBlank(h[i].text)}

EndsWith(s, t) ==
    Len(t) <= Len(s) /\ SubSeq(s, Len(s) - Len(t) + 1, Len(s)) = t

\* the transcript has one entry for each kept message of the last 12, in the
\* order of the history, and none for any other message
TranscriptOfLastTwelve ==
    LET h == fn_arg.history
        kept == KeptOfLastTwelve(h)
        lines == fn_ret[1].lines
    IN  /\ Len(lines) = Cardinality(kept)
        /\ \A i \in kept :
              EndsWith(lines[Cardinality({j \in kept : j <= i})], Strip(h[i].text))

\* C28 as stated: the negotiation transcript (draft and retry) holds only
\* messages of the last 12 entries of the history, in their order, blank
\* ones dropped, none older than the 12th from the end, and has at most 12
\* lines.
C28_AtMostTwelveLines ==
    HistoryDone({"negotiate", "retry"}) =>
        /\ TranscriptOfLastTwelve
        /\ Len(SplitLines(fn_ret[1].text)) <= 12

\* C28, amended: the negotiation transcript (draft and retry) holds only
\* messages of the last 12 entries of the history, in their order, blank
\* ones dropped, none older than the 12th from the end, and has at most 12
\* entries, one for each message kept.
C28_AtMostTwelveEntries ==
    HistoryDone({"negotiate", "retry"}) =>
        /\ TranscriptOfLastTwelve
        /\ Len(fn_ret[1].lines) <= 12

C28_Witness ==
    /\ HistoryDone({"retry"})
    /\ fn_arg.history = NumberedHistory(14, 13, 0, FALSE)
    /\ Len(fn_ret[1].lines) = 11
    /\ fn_ret[1].lines[1] = T_USER \o <<":", " ">> \o NumberedText(3)

(***************************************************************************)
(* _normalize_language on its own.                                         *)
(***************************************************************************)
LanguagePieces ==
    {<<"e">>, <<"N">>, <<"i", "d">>, <<"-">>, <<"_">>, <<"\n">>, <<" ">>, <<"1">>}

InitLanguage ==
    /\ env_retry_flag = None
    /\ env_retry_threshold = EnvUnset
    /\ IdleRequest
    /\ judge_in = JgFail("error")
    /\ judge_out = JudgeIdle
    /\ fn_arg \in {None} \cup {Some(t) : t \in TextsOfPieces(LanguagePieces, MaxLanguagePieces)}
    /\ fn_ret = None

LanguageApply ==
    /\ fn_ret = None
    /\ fn_ret' = Some(_normalize_language(fn_arg))
    /\ UNCHANGED <<fn_arg, envVars, reqVars, chatVars, progVars, judgeVars,
                   replyVars, obsVars>>

SpecLanguage == InitLanguage /\ [][LanguageApply]_vars

\* the trimmed, lower-cased text up to its first "-" or "_"
PrimarySegment(s) ==
    LET t == LowerText(Strip(s))
        cut == {i \in 1..Len(t) : t[i] \in {"-", "_"}}
    IN  IF cut = {} THEN t
        ELSE SubSeq(t, 1, (CHOOSE i \in cut : \A j \in cut : i <= j) - 1)

TwoOrThreeLetters(s) ==
    Len(s) \in {2, 3} /\ \A i \in 1..Len(s) : s[i] \in LowerSet

\* C30: for every input (null, empty, whitespace, locale strings with "-" or
\* "_", strings with line breaks or non-letters) _normalize_language returns
\* a text of exactly 2 or 3 letters a-z: the lower-cased segment before the
\* first "-" (after converting "_" to "-") when that segment is 2 or 3
\* letters, and "en" otherwise.
C30_LanguageCode ==
    fn_ret # None =>
        /\ TwoOrThreeLetters(fn_ret[1])
        /\ fn_ret[1] = IF fn_arg # None /\ TwoOrThreeLetters(PrimarySegment(fn_arg[1]))
                       THEN PrimarySegment(fn_arg[1])
                       ELSE T_en

(***************************************************************************)
(* The persona response against the object the model returned.            *)
(***************************************************************************)
PersonaOk == op = "persona" /\ pc = "done" /\ response.status = 200

\* C20: every successful persona response has avatar_id among the 6 allowed
\* ids (the trimmed, upper-cased id of the output when that is allowed, PENGU
\* otherwise), power_level an integer in [1,100] (50 for a boolean or a
\* non-number; a number rounded to the nearest integer and clamped), and
\* non-empty archetype_title and description (the fixed defaults when the
\* output has none or a blank one).
C20_PersonaWellFormed ==
    PersonaOk =>
      LET data == response.data
          avatar == UpperText(TextMember(first_out.avatar))
          power == first_out.power
      IN  /\ Cardinality(_ALLOWED_AVATAR_IDS) = 6
          /\ data.avatar_id \in _ALLOWED_AVATAR_IDS
          /\ data.avatar_id = IF avatar \in _ALLOWED_AVATAR_IDS THEN avatar ELSE T_PENGU
          /\ data.power_level \in MinPower..MaxPower
          /\ power.t # "num" => data.power_level = DefaultPower
          /\ power.t = "num" =>
                /\ power.v <= 10 * MinPower => data.power_level = MinPower
                /\ power.v >= 10 * MaxPower => data.power_level = MaxPower
                /\ (power.v >= 10 * MinPower /\ power.v <= 10 * MaxPower)
                      => Abs(10 * data.power_level - power.v) <= 5
          /\ data.archetype_title # <<>> /\ data.description # <<>>
          /\ IsBlank(TextMember(first_out.title))
                => data.archetype_title = DefaultArchetypeTitle
          /\ IsBlank(TextMember(first_out.desc))
                => data.description = DefaultDescription

C20_Witness ==
    /\ PersonaOk
    /\ first_out.avatar = Some(T_run)
    /\ first_out.power = JsonNum(2000)
    /\ response.data.avatar_id = T_PENGU
    /\ response.data.power_level = MaxPower

(***************************************************************************)
(* The response the middleware returns against the handler's response.    *)
(***************************************************************************)
\* the server with its middleware: a request is over once the middleware
\* has returned
NextFlush ==
    \/ ChatRequest
    \/ DraftReturns
    \/ JudgeReturns
    \/ RetryReturns
    \/ RejudgeReturns
    \/ PersonaRequest
    \/ PersonaReturns
    \/ OpikFlush
    \/ (flush_result # "none" /\ NextRequest)

\* the retry is switched on and the threshold left at its default
InitFlush ==
    /\ Init
    /\ FlagOn
    /\ env_retry_threshold = EnvUnset

SpecFlush == InitFlush /\ [][NextFlush]_vars

\* C33: a failure of the trace flush after the request was handled never
\* changes the response: the middleware returns the handler's response,
\* the same as when the flush succeeded or observability is disabled.
C33_FlushNeverChangesResponse ==
    flush_result # "none" =>
        /\ pc = "done"
        /\ middleware_response = response
        /\ middleware_response # NoResponse

C33_Witness ==
    /\ flush_result = "raised"
    /\ ChatOk /\ response.retry_used
    /\ middleware_response = response

====
